---- MODULE Spec2Model ----
(***************************************************************************)
(* Monte Carlo simulation engine of the Polymarket trading algorithm:      *)
(* src/monte_carlo/simulator.py driving src/monte_carlo/market_simulator.py*)
(*                                                                         *)
(* Floating-point quantities are carried as fixed-point integers:          *)
(*   prices            basis points   (0.25   -> 2500, 1.0 -> 10000)       *)
(*   money             cents          ($200   -> 20000)                    *)
(*   shares            1/100 share    (40.0   -> 4000)                     *)
(*   fractions (pct)   per mille      (0.15   -> 150)                      *)
(*   g score           millionths     (0.0003 -> 300)                      *)
(*   time              hours since the start of the run                    *)
(* Divisions truncate (\div) where the code divides floats.                *)
(* The random draws of the code (price shock, volume and liquidity walk,   *)
(* resolution dice, shuffle order, slippage) are nondeterministic choices  *)
(* over small sets of values the draw can produce.                         *)
(***************************************************************************)
EXTENDS Integers, Sequences, FiniteSets, TLC

\* ------------------------------------------------------------------ bounds
NumBots == 2
NumMarkets == 2
SimulationDays == 1

\* ---------------------------------------------------------------- constants
TimeStepHours == 4
PriceScale == 10000
MinPrice == 100
MaxPrice == 9900
MaxFillPrice == 9900
ExchangeFeePct == 2
MinVolume == 100
MinLiquidity == 50
MaxChecks == 50
MinPositionValue == 500
TestTradeCashPct == 5
ConfidenceBase == 500
ConfidenceCap == 950
InitialCapital == 20000

NONE == 0 - 1

BotIds == 1 .. NumBots
MarketIds == 1 .. NumMarkets

\* --------------------------------------------------------------- the draws
\* old_price + drift + random_change before clamping: the Gaussian shock can
\* carry the sum below 0.01 and above 0.99.
RawPriceDraws == {0 - 300, 5000, 10400}
\* Generated markets: initial price, initial volume ($), initial liquidity
\* ($), hours from the start to the end time, and the factors its volume and
\* liquidity walks draw (random.uniform(-0.05, 0.10) and
\* random.uniform(-0.03, 0.05), per mille of the initial value per day).
\* The populations handed to the engine are runs of consecutive entries of
\* this table, taken cyclically.
MarketTable ==
    << <<2500, 12000, 1200, 6, 100, 50>>,
       <<5000, 1010, 600, 6, 0 - 50, 0 - 30>>,
       <<2500, 60000, 6000, 22, 100, 50>>,
       <<5000, 12000, 1200, 22, 0 - 50, 0 - 30>> >>

\* markets, bots, current_time: the simulator's fields; pc, idx: the position
\* of the run.  call, ret: a component operation entered directly (its name
\* and arguments) and what it returned.  rng: the state of the process-wide
\* generators (random, np.random), followed where the seed matters.
VARIABLES markets, bots, current_time, pc, idx, call, ret, rng

vars == <<markets, bots, current_time, pc, idx, call, ret, rng>>
engine == <<markets, bots, current_time, pc, idx>>
harness == <<call, ret, rng>>

Min(a, b) == IF a <= b THEN a ELSE b
Max(a, b) == IF a >= b THEN a ELSE b

start_time == 0
end_time == start_time + SimulationDays * 24

\* ------------------------------------------------------------ SimulatedMarket
\* market_simulator.py MarketOutcome
YES_WINS == "yes_wins"
NO_WINS == "no_wins"
UNRESOLVED == "unresolved"

MarketAt(k) == MarketTable[((k - 1) % Len(MarketTable)) + 1]

\* One generated market: _generate_single_market followed by __post_init__
\* (current_* start at the initial_* values, the history holds the start
\* sample).
NewMarket(id, draw) ==
    [market_id |-> id,
     outcome_name |-> "Yes",
     initial_price |-> draw[1],
     initial_volume |-> draw[2],
     initial_liquidity |-> draw[3],
     start_time |-> start_time,
     end_time |-> start_time + draw[4],
     current_price |-> draw[1],
     current_volume |-> draw[2],
     current_liquidity |-> draw[3],
     price_history |-> [len |-> 1, last |-> <<start_time, draw[1]>>],
     final_outcome |-> UNRESOLVED,
     resolved |-> FALSE,
     resolution_time |-> NONE,
     walk |-> <<draw[5], draw[6]>>]

\* price_history.append(sample).  The engine only ever appends to the
\* history and never reads it: it is carried as its length and last sample.
HistoryAppend(h, sample) == [len |-> h.len + 1, last |-> sample]

\* Mutant: the lower clamp is lost.
ClampUpperOnly(raw) == Min(MaxPrice, raw)

\* new_price = max(0.01, min(0.99, new_price))
ClampPrice(raw) == Max(MinPrice, Min(MaxPrice, raw))

\* _resolve_market: the dice decide the outcome, the price snaps to it.
ResolveMarket(m, resolutionTime, yesWins) ==
    [m EXCEPT !.resolved = TRUE,
              !.resolution_time = resolutionTime,
              !.final_outcome = IF yesWins THEN YES_WINS ELSE NO_WINS,
              !.current_price = IF yesWins THEN PriceScale ELSE 0]

\* The unresolved, unexpired branch of simulate_price_movement.
MovePrice(m, t, raw) ==
    LET newPrice == ClampPrice(raw)
        volumeChange == (m.walk[1] * m.initial_volume * TimeStepHours) \div (1000 * 24)
        liqChange == (m.walk[2] * m.initial_liquidity * TimeStepHours) \div (1000 * 24)
    IN [m EXCEPT !.current_price = newPrice,
                 !.price_history = HistoryAppend(@, <<t, newPrice>>),
                 !.current_volume = Max(MinVolume, @ + volumeChange),
                 !.current_liquidity = Max(MinLiquidity, @ + liqChange)]

\* Mutant: the early return for a resolved market is lost.
SimulateWithoutResolvedGuard(m, t, raw, yesWins) ==
    IF t >= m.end_time THEN ResolveMarket(m, t, yesWins)
    ELSE MovePrice(m, t, raw)

\* Mutant: the market resolves one time step before its end time.
SimulateResolvesEarly(m, t, raw, yesWins) ==
    IF m.resolved THEN m
    ELSE IF t + TimeStepHours >= m.end_time THEN ResolveMarket(m, t, yesWins)
    ELSE MovePrice(m, t, raw)

\* simulate_price_movement(market, current_time, time_step_hours)
SimulatePriceMovement(m, t, raw, yesWins) ==
    IF m.resolved THEN m
    ELSE IF t >= m.end_time THEN ResolveMarket(m, t, yesWins)
    ELSE MovePrice(m, t, raw)

\* The outcome names positions are asked about, and str.lower() on them.
OutcomeNames == {"Yes", "YES", "yes", "No", "NO", "no"}

Lower(name) ==
    CASE name \in {"Yes", "YES", "yes"} -> "yes"
      [] name \in {"No", "NO", "no"} -> "no"
      [] OTHER -> name

\* Mutant: the outcome name is compared as given, not lower-cased.
GetResolutionValueCaseSensitive(mkts, marketId, outcome) ==
    IF marketId \notin DOMAIN mkts THEN NONE
    ELSE IF ~mkts[marketId].resolved THEN NONE
    ELSE IF outcome = "yes"
         THEN (IF mkts[marketId].final_outcome = YES_WINS THEN PriceScale ELSE 0)
         ELSE (IF mkts[marketId].final_outcome = YES_WINS THEN 0 ELSE PriceScale)

\* get_resolution_value(market_id, outcome)
GetResolutionValue(mkts, marketId, outcome) ==
    IF marketId \notin DOMAIN mkts THEN NONE
    ELSE IF ~mkts[marketId].resolved THEN NONE
    ELSE IF Lower(outcome) = "yes"
         THEN (IF mkts[marketId].final_outcome = YES_WINS THEN PriceScale ELSE 0)
         ELSE (IF mkts[marketId].final_outcome = YES_WINS THEN 0 ELSE PriceScale)

\* ------------------------------------------------------------ StrategyConfig
\* Strategy parameter bundles given to the bots (hand-built configurations:
\* BotState accepts any StrategyConfig).  Days are in hundredths of a day;
\* all of them trade markets that resolve within 0.05 to 0.25 days.  "probe"
\* sizes test trades, "single" caps the open positions at one, "unreachable"
\* asks for a confidence above the cap and "overreach" sizes a position
\* beyond the cash.
BaseStrategy ==
    [strategy_type |-> "aggressive",
     initial_capital |-> InitialCapital,
     max_position_size |-> 6000,
     max_position_pct |-> 300,
     stop_loss_pct |-> 200,
     take_profit_pct |-> 400,
     swing_enabled |-> TRUE,
     swing_take_profit_pct |-> 120,
     swing_stop_loss_pct |-> 80,
     min_g_score |-> 300,
     min_expected_roi |-> 50,
     min_confidence |-> 400,
     high_confidence |-> 700,
     min_price |-> 50,
     max_price |-> 900,
     min_volume |-> 1000,
     min_liquidity |-> 500,
     min_days |-> 5,
     max_days |-> 25,
     max_positions |-> 5,
     test_trade_enabled |-> FALSE,
     test_trade_size |-> 1000,
     max_slippage_pct |-> 300]

ProbeStrategy ==
    [BaseStrategy EXCEPT !.strategy_type = "conservative",
                         !.test_trade_enabled = TRUE,
                         !.high_confidence = 800,
                         !.max_position_pct = 100,
                         !.max_position_size = 2000]

SingleStrategy ==
    [BaseStrategy EXCEPT !.strategy_type = "value",
                         !.take_profit_pct = 1000,
                         !.max_positions = 1]

UnreachableStrategy ==
    [BaseStrategy EXCEPT !.strategy_type = "balanced", !.min_confidence = 1100]

OverreachStrategy ==
    [BaseStrategy EXCEPT !.strategy_type = "high_roller",
                         !.max_position_pct = 1500,
                         !.max_position_size = 30000]

\* ProbeStrategy on a capital of $50: its test trades are sized at 5% of the
\* cash, below the $5 floor.
SmallProbeStrategy ==
    [ProbeStrategy EXCEPT !.strategy_type = "scalper",
                          !.initial_capital = 5000]

\* The strategy lists handed to _initialize_bots are runs of consecutive
\* entries of this table, taken cyclically.
StrategyTable ==
    <<BaseStrategy, UnreachableStrategy, ProbeStrategy, OverreachStrategy,
      SingleStrategy, BaseStrategy, OverreachStrategy, SmallProbeStrategy>>

StrategyAt(k) == StrategyTable[((k - 1) % Len(StrategyTable)) + 1]

\* ------------------------------------------------------------------ BotState
\* _initialize_bots: BotState(id, strategy, initial_capital, cash_balance,
\* peak_value) with the dataclass defaults for the rest.
NewBot(id, strategy) ==
    [id |-> id,
     strategy |-> strategy,
     initial_capital |-> strategy.initial_capital,
     cash_balance |-> strategy.initial_capital,
     open_trades |-> << >>,
     closed_trades |-> << >>,
     total_trades |-> 0,
     winning_trades |-> 0,
     losing_trades |-> 0,
     total_pnl |-> 0,
     peak_value |-> strategy.initial_capital,
     max_drawdown |-> 0,
     trade_counter |-> 0]

RECURSIVE SumOver(_, _)
\* sum(...) over a sequence of integers
SumOver(seq, i) ==
    IF i > Len(seq) THEN 0 ELSE seq[i] + SumOver(seq, i + 1)

\* t.shares * price, in cents
PositionValue(shares, price) == (shares * price) \div PriceScale

\* BotState.portfolio_value
PortfolioValue(bot) ==
    bot.cash_balance
    + SumOver([i \in 1 .. Len(bot.open_trades) |->
                 PositionValue(bot.open_trades[i].shares,
                               bot.open_trades[i].entry_price)], 1)

\* BotState.total_return_pct, in hundredths of a percent
TotalReturnPct(bot) ==
    IF bot.initial_capital <= 0 THEN 0
    ELSE ((PortfolioValue(bot) - bot.initial_capital) * 10000)
         \div bot.initial_capital

\* ------------------------------------------------------------- _close_trade
\* Index of the open trade with this id, 0 when the id is not open.
OpenIndex(bot, tradeId) ==
    IF \E i \in 1 .. Len(bot.open_trades) : bot.open_trades[i].id = tradeId
    THEN CHOOSE i \in 1 .. Len(bot.open_trades) : bot.open_trades[i].id = tradeId
    ELSE 0

\* Mutant: the fee is taken on every exit.
ExitFeeAlways(proceeds, exitPrice, entryPrice) ==
    (proceeds * ExchangeFeePct) \div 100

\* The fee rule of _close_trade: EXCHANGE_FEE of the proceeds, on exits above
\* the entry price only.
ExitFee(proceeds, exitPrice, entryPrice) ==
    IF exitPrice > entryPrice THEN (proceeds * ExchangeFeePct) \div 100 ELSE 0

RemoveAt(seq, i) ==
    [j \in 1 .. (Len(seq) - 1) |-> IF j < i THEN seq[j] ELSE seq[j + 1]]

\* Mutant: the trade is read from the open set without being removed.
CloseTradeKeepsOpen(bot, tradeId, exitPrice, reason, now) ==
    LET i == OpenIndex(bot, tradeId) IN
    IF i = 0 THEN bot
    ELSE
      LET trade == bot.open_trades[i]
          gross == PositionValue(trade.shares, exitPrice)
          proceeds == gross - ExitFee(gross, exitPrice, trade.entry_price)
          pnl == proceeds - trade.cost
          closed == [trade EXCEPT !.exit_time = now,
                                  !.exit_price = exitPrice,
                                  !.exit_reason = reason,
                                  !.status = "closed",
                                  !.pnl = pnl,
                                  !.pnl_pct = IF trade.cost > 0
                                              THEN (pnl * 10000) \div trade.cost
                                              ELSE 0]
      IN [bot EXCEPT !.cash_balance = @ + proceeds,
                     !.total_pnl = @ + pnl,
                     !.winning_trades = IF pnl > 0 THEN @ + 1 ELSE @,
                     !.losing_trades = IF pnl > 0 THEN @ ELSE @ + 1,
                     !.closed_trades = Append(@, closed)]

\* Mutant: the cash takes the proceeds before the fee.
CloseTradeGrossCash(bot, tradeId, exitPrice, reason, now) ==
    LET i == OpenIndex(bot, tradeId) IN
    IF i = 0 THEN bot
    ELSE
      LET trade == bot.open_trades[i]
          gross == PositionValue(trade.shares, exitPrice)
          proceeds == gross - ExitFee(gross, exitPrice, trade.entry_price)
          pnl == proceeds - trade.cost
          closed == [trade EXCEPT !.exit_time = now,
                                  !.exit_price = exitPrice,
                                  !.exit_reason = reason,
                                  !.status = "closed",
                                  !.pnl = pnl,
                                  !.pnl_pct = IF trade.cost > 0
                                              THEN (pnl * 10000) \div trade.cost
                                              ELSE 0]
      IN [bot EXCEPT !.open_trades = RemoveAt(@, i),
                     !.cash_balance = @ + gross,
                     !.total_pnl = @ + pnl,
                     !.winning_trades = IF pnl > 0 THEN @ + 1 ELSE @,
                     !.losing_trades = IF pnl > 0 THEN @ ELSE @ + 1,
                     !.closed_trades = Append(@, closed)]

\* Mutant: a trade closed with a pnl of zero counts as winning.
CloseTradeZeroWins(bot, tradeId, exitPrice, reason, now) ==
    LET i == OpenIndex(bot, tradeId) IN
    IF i = 0 THEN bot
    ELSE
      LET trade == bot.open_trades[i]
          gross == PositionValue(trade.shares, exitPrice)
          proceeds == gross - ExitFee(gross, exitPrice, trade.entry_price)
          pnl == proceeds - trade.cost
          closed == [trade EXCEPT !.exit_time = now,
                                  !.exit_price = exitPrice,
                                  !.exit_reason = reason,
                                  !.status = "closed",
                                  !.pnl = pnl,
                                  !.pnl_pct = IF trade.cost > 0
                                              THEN (pnl * 10000) \div trade.cost
                                              ELSE 0]
      IN [bot EXCEPT !.open_trades = RemoveAt(@, i),
                     !.cash_balance = @ + proceeds,
                     !.total_pnl = @ + pnl,
                     !.winning_trades = IF pnl >= 0 THEN @ + 1 ELSE @,
                     !.losing_trades = IF pnl >= 0 THEN @ ELSE @ + 1,
                     !.closed_trades = Append(@, closed)]

\* _close_trade(bot, trade_id, exit_price, reason)
CloseTrade(bot, tradeId, exitPrice, reason, now) ==
    LET i == OpenIndex(bot, tradeId) IN
    IF i = 0 THEN bot
    ELSE
      LET trade == bot.open_trades[i]
          gross == PositionValue(trade.shares, exitPrice)
          proceeds == gross - ExitFee(gross, exitPrice, trade.entry_price)
          pnl == proceeds - trade.cost
          closed == [trade EXCEPT !.exit_time = now,
                                  !.exit_price = exitPrice,
                                  !.exit_reason = reason,
                                  !.status = "closed",
                                  !.pnl = pnl,
                                  !.pnl_pct = IF trade.cost > 0
                                              THEN (pnl * 10000) \div trade.cost
                                              ELSE 0]
      IN [bot EXCEPT !.open_trades = RemoveAt(@, i),
                     !.cash_balance = @ + proceeds,
                     !.total_pnl = @ + pnl,
                     !.winning_trades = IF pnl > 0 THEN @ + 1 ELSE @,
                     !.losing_trades = IF pnl > 0 THEN @ ELSE @ + 1,
                     !.closed_trades = Append(@, closed)]

\* ----------------------------------------------------- _update_bot_positions
\* Mutant: the stop-loss threshold is not tested.
CloseDecisionNoStopLoss(bot, mkts, i) ==
    LET trade == bot.open_trades[i] IN
    IF trade.market_id \notin DOMAIN mkts THEN << >>
    ELSE
      LET market == mkts[trade.market_id]
          currentPrice == market.current_price
          resolutionValue == GetResolutionValue(mkts, trade.market_id, trade.outcome)
          diff == currentPrice - trade.entry_price
      IN IF market.resolved
         THEN (IF resolutionValue # NONE
               THEN <<trade.id, resolutionValue, "resolution">> ELSE << >>)
         ELSE IF diff * 1000 >= bot.strategy.take_profit_pct * trade.entry_price
         THEN <<trade.id, currentPrice, "take_profit">>
         ELSE << >>

\* The (trade_id, exit_price, reason) the maintenance pass queues for the
\* open trade at index i, or << >> when it queues nothing.
CloseDecision(bot, mkts, i) ==
    LET trade == bot.open_trades[i] IN
    IF trade.market_id \notin DOMAIN mkts THEN << >>
    ELSE
      LET market == mkts[trade.market_id]
          currentPrice == market.current_price
          resolutionValue == GetResolutionValue(mkts, trade.market_id, trade.outcome)
          diff == currentPrice - trade.entry_price
      IN IF market.resolved
         THEN (IF resolutionValue # NONE
               THEN <<trade.id, resolutionValue, "resolution">> ELSE << >>)
         ELSE IF diff * 1000 >= bot.strategy.take_profit_pct * trade.entry_price
         THEN <<trade.id, currentPrice, "take_profit">>
         ELSE IF diff * 1000 <= (0 - bot.strategy.stop_loss_pct) * trade.entry_price
         THEN <<trade.id, currentPrice, "stop_loss">>
         ELSE << >>

RECURSIVE CloseQueued(_, _, _, _)
\* for trade_id, exit_price, reason in trades_to_close: _close_trade(...)
CloseQueued(bot, queue, k, now) ==
    IF k > Len(queue) THEN bot
    ELSE CloseQueued(
           IF queue[k] = << >> THEN bot
           ELSE CloseTrade(bot, queue[k][1], queue[k][2], queue[k][3], now),
           queue, k + 1, now)

\* _update_bot_positions(bot)
UpdateBotPositions(bot, mkts, now) ==
    CloseQueued(bot,
                [i \in 1 .. Len(bot.open_trades) |-> CloseDecision(bot, mkts, i)],
                1, now)

\* -------------------------------------------------- _evaluate_market_for_bot
\* log1p((1 - EXCHANGE_FEE) * (1 - p) / p) in millionths, for p = 0.01 .. 0.99
\* in steps of 0.01.
Log1pReturn ==
    <<
      4585172, 3892228, 3486967, 3199489, 2976549, 2794432, 2640485, 2507157, 2389578, 2284421,
      2189315, 2102507, 2022668, 1948763, 1879974, 1815639, 1755218, 1698262, 1644399, 1593309,
      1544722, 1498405, 1454156, 1411800, 1371181, 1332163, 1294626, 1258461, 1223573, 1189874,
      1157287, 1125741, 1095172, 1065522, 1036737, 1008769, 981572, 955107, 929334, 904218,
      879728, 855833, 832505, 809717, 787447, 765670, 744366, 723515, 703098, 683097, 663496,
      644280, 625434, 606944, 588796, 570980, 553482, 536292, 519399, 502793, 486466, 470407,
      454608, 439061, 423758, 408692, 393856, 379242, 364844, 350657, 336673, 322888, 309296,
      295892, 282670, 269625, 256754, 244052, 231513, 219136, 206914, 194844, 182924, 171148,
      159514, 148019, 136659, 125430, 114331, 103359, 92509, 81780, 71170, 60675, 50293, 40022,
      29859, 19803, 9850
    >>

\* (1 - EXCHANGE_FEE) * ((1.0 - price) / price), per mille
ExpectedRoi(price) ==
    ((100 - ExchangeFeePct) * (PriceScale - price) * 10) \div price

\* Mutant: the resolution days are not tested.
ComputeGAnyDays(price, hours) ==
    IF price <= 0 \/ price >= PriceScale THEN NONE
    ELSE IF hours + 24 <= 0 THEN NONE
    ELSE (Log1pReturn[price \div 100] * 24) \div (hours + 24)

\* _compute_g(price, resolution_days) with lambda_days = 1.0; hours are the
\* resolution days times 24.  NONE where the code returns None.
ComputeG(price, hours) ==
    IF price <= 0 \/ price >= PriceScale \/ hours <= 0 THEN NONE
    ELSE IF hours + 24 <= 0 THEN NONE
    ELSE (Log1pReturn[price \div 100] * 24) \div (hours + 24)

\* Mutant: the bonuses of the highest and the lowest volume tier and of the
\* two liquidity tiers are exchanged.
CalculateConfidenceTiersSwapped(price, volume, liquidity, hours, g) ==
    LET volumeBonus == IF volume > 50000 THEN 30
                       ELSE IF volume > 10000 THEN 60
                       ELSE IF volume > 5000 THEN 100 ELSE 0
        liquidityBonus == IF liquidity > 5000 THEN 40
                          ELSE IF liquidity > 1000 THEN 80 ELSE 0
        priceBonus == IF 2000 <= price /\ price <= 7000 THEN 80
                      ELSE IF 1000 <= price /\ price <= 8500 THEN 40 ELSE 0
        timeBonus == IF 7 * 24 <= hours /\ hours <= 30 * 24 THEN 80
                     ELSE IF 3 * 24 <= hours /\ hours <= 60 * 24 THEN 40 ELSE 0
        gBonus == IF g > 10000 THEN 50 ELSE IF g > 5000 THEN 30 ELSE 0
    IN Min(ConfidenceBase + volumeBonus + liquidityBonus + priceBonus
           + timeBonus + gBonus, ConfidenceCap)

\* _calculate_confidence(price, volume, liquidity, resolution_days, g_score),
\* per mille
CalculateConfidence(price, volume, liquidity, hours, g) ==
    LET volumeBonus == IF volume > 50000 THEN 100
                       ELSE IF volume > 10000 THEN 60
                       ELSE IF volume > 5000 THEN 30 ELSE 0
        liquidityBonus == IF liquidity > 5000 THEN 80
                          ELSE IF liquidity > 1000 THEN 40 ELSE 0
        priceBonus == IF 2000 <= price /\ price <= 7000 THEN 80
                      ELSE IF 1000 <= price /\ price <= 8500 THEN 40 ELSE 0
        timeBonus == IF 7 * 24 <= hours /\ hours <= 30 * 24 THEN 80
                     ELSE IF 3 * 24 <= hours /\ hours <= 60 * 24 THEN 40 ELSE 0
        gBonus == IF g > 10000 THEN 50 ELSE IF g > 5000 THEN 30 ELSE 0
    IN Min(ConfidenceBase + volumeBonus + liquidityBonus + priceBonus
           + timeBonus + gBonus, ConfidenceCap)

\* Mutant: the confidence threshold is not tested.
EvaluateWithoutConfidence(bot, market, now) ==
    LET strategy == bot.strategy
        price == market.current_price
        hours == market.end_time - now
        g == ComputeG(price, hours)
    IN IF price < strategy.min_price * 10 \/ price > strategy.max_price * 10
       THEN <<FALSE, 0>>
       ELSE IF market.current_volume < strategy.min_volume THEN <<FALSE, 0>>
       ELSE IF market.current_liquidity < strategy.min_liquidity THEN <<FALSE, 0>>
       ELSE IF hours * 100 < strategy.min_days * 24
               \/ hours * 100 > strategy.max_days * 24
       THEN <<FALSE, 0>>
       ELSE IF g = NONE \/ g < strategy.min_g_score THEN <<FALSE, 0>>
       ELSE IF ExpectedRoi(price) < strategy.min_expected_roi THEN <<FALSE, 0>>
       ELSE <<TRUE, CalculateConfidence(price, market.current_volume,
                                        market.current_liquidity, hours, g)>>

\* Mutant: the price bounds are not tested.
EvaluateWithoutPriceBounds(bot, market, now) ==
    LET strategy == bot.strategy
        price == market.current_price
        hours == market.end_time - now
        g == ComputeG(price, hours)
        confidence == CalculateConfidence(price, market.current_volume,
                                          market.current_liquidity, hours, g)
    IN IF market.current_volume < strategy.min_volume THEN <<FALSE, 0>>
       ELSE IF market.current_liquidity < strategy.min_liquidity THEN <<FALSE, 0>>
       ELSE IF hours * 100 < strategy.min_days * 24 \/ hours * 100 > strategy.max_days * 24
       THEN <<FALSE, 0>>
       ELSE IF g = NONE \/ g < strategy.min_g_score THEN <<FALSE, 0>>
       ELSE IF ExpectedRoi(price) < strategy.min_expected_roi THEN <<FALSE, 0>>
       ELSE IF confidence < strategy.min_confidence THEN <<FALSE, 0>>
       ELSE <<TRUE, confidence>>

\* _evaluate_market_for_bot(bot, market): <<should_buy, confidence>>
EvaluateMarketForBot(bot, market, now) ==
    LET strategy == bot.strategy
        price == market.current_price
        hours == market.end_time - now
        g == ComputeG(price, hours)
        confidence == CalculateConfidence(price, market.current_volume,
                                          market.current_liquidity, hours, g)
    IN IF price < strategy.min_price * 10 \/ price > strategy.max_price * 10
       THEN <<FALSE, 0>>
       ELSE IF market.current_volume < strategy.min_volume THEN <<FALSE, 0>>
       ELSE IF market.current_liquidity < strategy.min_liquidity THEN <<FALSE, 0>>
       ELSE IF hours * 100 < strategy.min_days * 24 \/ hours * 100 > strategy.max_days * 24
       THEN <<FALSE, 0>>
       ELSE IF g = NONE \/ g < strategy.min_g_score THEN <<FALSE, 0>>
       ELSE IF ExpectedRoi(price) < strategy.min_expected_roi THEN <<FALSE, 0>>
       ELSE IF confidence < strategy.min_confidence THEN <<FALSE, 0>>
       ELSE <<TRUE, confidence>>

\* -------------------------------------------------------------- _execute_buy
\* The position size of _execute_buy, in cents.
PositionSize(bot, confidence) ==
    LET strategy == bot.strategy
        isHighConfidence == confidence >= strategy.high_confidence
    IN IF strategy.test_trade_enabled /\ ~isHighConfidence
       THEN Min(strategy.test_trade_size,
                (bot.cash_balance * TestTradeCashPct) \div 100)
       ELSE Min(strategy.max_position_size,
                (bot.cash_balance * strategy.max_position_pct) \div 1000)

\* Mutant: only the minimum floor is tested.
BuyRejectedFloorOnly(positionValue, cash) == positionValue < MinPositionValue

\* if position_value < 5 or position_value > bot.cash_balance: return
BuyRejected(positionValue, cash) ==
    positionValue < MinPositionValue \/ positionValue > cash

\* actual_price = min(0.99, market.current_price * (1 + slippage))
FillPrice(price, slip) ==
    Min(MaxFillPrice, (price * (PriceScale + slip)) \div PriceScale)

\* Mutant: the shares are the position value itself, not divided by the price.
SharesUndivided(positionValue, actualPrice) == positionValue

\* shares = position_value / actual_price, in 1/100 share
SharesBought(positionValue, actualPrice) ==
    (positionValue * PriceScale) \div actualPrice

\* Mutant: a rejected attempt still takes a trade number.
ExecuteBuyCountsRejected(bot, market, confidence, slip, now) ==
    LET positionValue == PositionSize(bot, confidence)
        actualPrice == FillPrice(market.current_price, slip)
        trade == [id |-> bot.trade_counter + 1,
                  bot_id |-> bot.id,
                  market_id |-> market.market_id,
                  outcome |-> market.outcome_name,
                  entry_time |-> now,
                  entry_price |-> actualPrice,
                  shares |-> SharesBought(positionValue, actualPrice),
                  cost |-> positionValue,
                  exit_time |-> NONE,
                  exit_price |-> NONE,
                  exit_reason |-> "",
                  pnl |-> 0,
                  pnl_pct |-> 0,
                  status |-> "open"]
    IN IF BuyRejected(positionValue, bot.cash_balance)
       THEN [bot EXCEPT !.trade_counter = @ + 1]
       ELSE [bot EXCEPT !.trade_counter = @ + 1,
                        !.open_trades = Append(@, trade),
                        !.cash_balance = @ - positionValue,
                        !.total_trades = @ + 1]

\* _execute_buy(bot, market, confidence); slip is the slippage drawn, in
\* basis points.
ExecuteBuy(bot, market, confidence, slip, now) ==
    LET positionValue == PositionSize(bot, confidence)
        actualPrice == FillPrice(market.current_price, slip)
        trade == [id |-> bot.trade_counter + 1,
                  bot_id |-> bot.id,
                  market_id |-> market.market_id,
                  outcome |-> market.outcome_name,
                  entry_time |-> now,
                  entry_price |-> actualPrice,
                  shares |-> SharesBought(positionValue, actualPrice),
                  cost |-> positionValue,
                  exit_time |-> NONE,
                  exit_price |-> NONE,
                  exit_reason |-> "",
                  pnl |-> 0,
                  pnl_pct |-> 0,
                  status |-> "open"]
    IN IF BuyRejected(positionValue, bot.cash_balance) THEN bot
       ELSE [bot EXCEPT !.trade_counter = @ + 1,
                        !.open_trades = Append(@, trade),
                        !.cash_balance = @ - positionValue,
                        !.total_trades = @ + 1]

\* -------------------------------------------------- _scan_for_opportunities
\* active_markets: the unresolved markets that end after the current time.
ActiveMarkets(mkts, now) ==
    {m \in DOMAIN mkts : ~mkts[m].resolved /\ mkts[m].end_time > now}

\* The orders np.random.shuffle can leave the active markets in.
Orders(S) ==
    {o \in [1 .. Cardinality(S) -> S] :
        \A i, j \in 1 .. Cardinality(S) : i # j => o[i] # o[j]}

\* Mutant: the bot is never taken to hold the market.
HoldsNoMarket(bot, marketId) == FALSE

HoldsMarket(bot, marketId) ==
    \E i \in 1 .. Len(bot.open_trades) : bot.open_trades[i].market_id = marketId

RECURSIVE ScanLoopFirstBuy(_, _, _, _, _, _, _)
\* Mutant: the loop is left after the first buy.
ScanLoopFirstBuy(bot, mkts, now, order, slips, k, checked) ==
    IF k > Len(order) THEN bot
    ELSE IF checked >= MaxChecks THEN bot
    ELSE IF Len(bot.open_trades) >= bot.strategy.max_positions THEN bot
    ELSE
      LET market == mkts[order[k]]
          eval == EvaluateMarketForBot(bot, market, now)
      IN IF ~HoldsMarket(bot, market.market_id) /\ eval[1]
         THEN ExecuteBuy(bot, market, eval[2], slips[order[k]], now)
         ELSE ScanLoopFirstBuy(bot, mkts, now, order, slips, k + 1, checked + 1)

RECURSIVE ScanLoopUncapped(_, _, _, _, _, _, _)
\* Mutant: the loop does not test the position cap.
ScanLoopUncapped(bot, mkts, now, order, slips, k, checked) ==
    IF k > Len(order) THEN bot
    ELSE IF checked >= MaxChecks THEN bot
    ELSE
      LET market == mkts[order[k]]
          eval == EvaluateMarketForBot(bot, market, now)
          next == IF HoldsMarket(bot, market.market_id) THEN bot
                  ELSE IF eval[1]
                  THEN ExecuteBuy(bot, market, eval[2], slips[order[k]], now)
                  ELSE bot
      IN ScanLoopUncapped(next, mkts, now, order, slips, k + 1, checked + 1)

RECURSIVE ScanLoop(_, _, _, _, _, _, _)
\* The for loop of _scan_for_opportunities over the shuffled markets, from
\* position k on, with `checked` candidates counted so far.
ScanLoop(bot, mkts, now, order, slips, k, checked) ==
    IF k > Len(order) THEN bot
    ELSE IF checked >= MaxChecks THEN bot
    ELSE IF Len(bot.open_trades) >= bot.strategy.max_positions THEN bot
    ELSE
      LET market == mkts[order[k]]
          eval == EvaluateMarketForBot(bot, market, now)
          next == IF HoldsMarket(bot, market.market_id) THEN bot
                  ELSE IF eval[1]
                  THEN ExecuteBuy(bot, market, eval[2], slips[order[k]], now)
                  ELSE bot
      IN ScanLoop(next, mkts, now, order, slips, k + 1, checked + 1)

\* _scan_for_opportunities(bot)
ScanForOpportunities(bot, mkts, now, order, slips) ==
    ScanLoop(bot, mkts, now, order, slips, 1, 0)

\* --------------------------------------------------------- _process_bot_cycle
\* drawdown = (peak - current) / peak, in basis points
Drawdown(peak, current) ==
    IF peak > 0 THEN ((peak - current) * 10000) \div peak ELSE 0

\* Mutant: peak and drawdown are overwritten with the latest values.
UpdateDrawdownLatest(bot) ==
    [bot EXCEPT !.peak_value = PortfolioValue(bot),
                !.max_drawdown = Drawdown(bot.peak_value, PortfolioValue(bot))]

\* The peak value and drawdown bookkeeping that ends _process_bot_cycle.
UpdateDrawdown(bot) ==
    LET currentValue == PortfolioValue(bot)
        peak == IF currentValue > bot.peak_value THEN currentValue
                ELSE bot.peak_value
        drawdown == Drawdown(peak, currentValue)
    IN [bot EXCEPT !.peak_value = peak,
                   !.max_drawdown = IF drawdown > @ THEN drawdown ELSE @]

\* _process_bot_cycle(bot)
ProcessBotCycle(bot, mkts, now, order, slips) ==
    LET maintained == UpdateBotPositions(bot, mkts, now)
        scanned == IF Len(maintained.open_trades) < maintained.strategy.max_positions
                   THEN ScanForOpportunities(maintained, mkts, now, order, slips)
                   ELSE maintained
    IN UpdateDrawdown(scanned)

\* ---------------------------------------------------- _resolve_all_positions
\* Mutant: the final pass closes every trade at its entry price.
LiquidationAtEntry(mkts, trade) == trade.entry_price

\* The exit price the final pass gives the open trade.
LiquidationPrice(mkts, trade) ==
    IF trade.market_id \in DOMAIN mkts /\ mkts[trade.market_id].resolved
    THEN (IF GetResolutionValue(mkts, trade.market_id, trade.outcome) = NONE
          THEN mkts[trade.market_id].current_price
          ELSE GetResolutionValue(mkts, trade.market_id, trade.outcome))
    ELSE IF trade.market_id \in DOMAIN mkts
    THEN mkts[trade.market_id].current_price
    ELSE trade.entry_price

RECURSIVE CloseAll(_, _, _, _, _)
\* for trade_id in trade_ids: _close_trade(bot, trade_id, exit_price,
\* "simulation_end"), over the trades open when the pass reached the bot.
CloseAll(bot, mkts, trades, k, now) ==
    IF k > Len(trades) THEN bot
    ELSE CloseAll(CloseTrade(bot, trades[k].id,
                             LiquidationPrice(mkts, trades[k]),
                             "simulation_end", now),
                  mkts, trades, k + 1, now)

\* Mutant: only the trades of resolved markets are closed.
ResolveResolvedOnly(bot, mkts, now) ==
    CloseAll(bot, mkts,
             SelectSeq(bot.open_trades,
                       LAMBDA t : t.market_id \in DOMAIN mkts
                                  /\ mkts[t.market_id].resolved),
             1, now)

\* The body of _resolve_all_positions for one bot.
ResolvePositions(bot, mkts, now) ==
    CloseAll(bot, mkts, bot.open_trades, 1, now)

\* ------------------------------------------- AutoTradingBot (trade types)
SwingMinVolume == 50000
SwingMaxDays == 7

\* auto_trader.py execute_trade: is_swing, for a market of this volume that
\* resolves in this many hours.
IsSwing(config, volume, hours) ==
    /\ config.swing_enabled
    /\ volume >= SwingMinVolume
    /\ hours <= SwingMaxDays * 24

\* auto_trader.py update_positions: the stop-loss and take-profit thresholds
\* of a trade of this type.
Thresholds(config, tradeType) ==
    IF tradeType = "swing"
    THEN [stop_loss |-> config.swing_stop_loss_pct,
          take_profit |-> config.swing_take_profit_pct]
    ELSE [stop_loss |-> config.stop_loss_pct,
          take_profit |-> config.take_profit_pct]

\* ------------------------------------------------------ _run_simulation_loop
\* pc is the place of the run in _run_simulation_loop: "markets" and "bots"
\* are the two for loops of a tick (idx the next market or bot), "advance"
\* the time step, "liquidate" the loop of _resolve_all_positions (idx the
\* next bot), "done" the return.
Init ==
    \E firstMarket \in 1 .. Len(MarketTable),
       first \in 1 .. Len(StrategyTable) :
        /\ markets = [m \in MarketIds |-> NewMarket(m, MarketAt(firstMarket + m - 1))]
        /\ bots = [b \in BotIds |-> NewBot(b, StrategyAt(first + b - 1))]
        /\ current_time = start_time
        /\ pc = IF start_time < end_time THEN "markets" ELSE "liquidate"
        /\ idx = 1
        /\ call = NONE /\ ret = NONE /\ rng = NONE

\* Slippage draws of np.random.uniform(0, max_slippage_pct / 100), in basis
\* points.
SlipDraws(strategy) == {0, strategy.max_slippage_pct}

\* Mutant: the market loop stops after the first market.
AdvanceFirstMarketOnly ==
    /\ pc = "markets"
    /\ \E raw \in RawPriceDraws, yesWins \in BOOLEAN :
         markets' = [markets EXCEPT
                       ![idx] = SimulatePriceMovement(@, current_time, raw,
                                                      yesWins)]
    /\ pc' = "bots"
    /\ idx' = 1
    /\ UNCHANGED <<bots, current_time, harness>>

\* One iteration of "for market in self.markets.values():
\* simulate_price_movement(market, self.current_time, time_step_hours)".
AdvanceMarket ==
    /\ pc = "markets"
    /\ \E raw \in RawPriceDraws, yesWins \in BOOLEAN :
         markets' = [markets EXCEPT
                       ![idx] = SimulatePriceMovement(@, current_time, raw,
                                                      yesWins)]
    /\ IF idx < NumMarkets
       THEN pc' = pc /\ idx' = idx + 1
       ELSE pc' = "bots" /\ idx' = 1
    /\ UNCHANGED <<bots, current_time, harness>>

\* Mutant: the bots share one cash balance (the first bot's).
BotCycleShared ==
    /\ pc = "bots"
    /\ \E order \in Orders(ActiveMarkets(markets, current_time)),
          slips \in [MarketIds -> SlipDraws(bots[idx].strategy)] :
         LET after == ProcessBotCycle(bots[idx], markets, current_time, order,
                                      slips)
         IN bots' = [b \in BotIds |->
                       IF b = idx THEN after
                       ELSE IF b = 1
                       THEN [bots[b] EXCEPT !.cash_balance = after.cash_balance]
                       ELSE bots[b]]
    /\ IF idx < NumBots
       THEN pc' = pc /\ idx' = idx + 1
       ELSE pc' = "advance" /\ idx' = 1
    /\ UNCHANGED <<markets, current_time, harness>>

\* One iteration of "for bot in self.bots.values(): _process_bot_cycle(bot)".
BotCycle ==
    /\ pc = "bots"
    /\ \E order \in Orders(ActiveMarkets(markets, current_time)),
          slips \in [MarketIds -> SlipDraws(bots[idx].strategy)] :
         bots' = [bots EXCEPT
                    ![idx] = ProcessBotCycle(@, markets, current_time, order,
                                             slips)]
    /\ IF idx < NumBots
       THEN pc' = pc /\ idx' = idx + 1
       ELSE pc' = "advance" /\ idx' = 1
    /\ UNCHANGED <<markets, current_time, harness>>

\* Mutant: the loop goes on while current_time <= end_time.
AdvanceTimeExtraTick ==
    /\ pc = "advance"
    /\ current_time' = current_time + TimeStepHours
    /\ pc' = IF current_time' <= end_time THEN "markets" ELSE "liquidate"
    /\ idx' = 1
    /\ UNCHANGED <<markets, bots, harness>>

\* self.current_time += timedelta(hours=time_step_hours), then the test of
\* "while self.current_time < self.end_time".
AdvanceTime ==
    /\ pc = "advance"
    /\ current_time' = current_time + TimeStepHours
    /\ pc' = IF current_time' < end_time THEN "markets" ELSE "liquidate"
    /\ idx' = 1
    /\ UNCHANGED <<markets, bots, harness>>

\* One iteration of "for bot in self.bots.values()" in
\* _resolve_all_positions.
Liquidate ==
    /\ pc = "liquidate"
    /\ bots' = [bots EXCEPT ![idx] = ResolvePositions(@, markets, current_time)]
    /\ IF idx < NumBots
       THEN pc' = pc /\ idx' = idx + 1
       ELSE pc' = "done" /\ idx' = 1
    /\ UNCHANGED <<markets, current_time, harness>>

Next == AdvanceMarket \/ BotCycle \/ AdvanceTime \/ Liquidate

Spec == Init /\ [][Next]_vars

\* run() is one thread that executes the loop and the final pass without
\* waiting on anything: a step that can be taken is taken.
RunStep ==
    /\ pc # "done"
    /\ pc' \in {"markets", "bots", "advance", "liquidate", "done"}
    /\ idx' \in 1 .. (NumBots + NumMarkets + 1)
    /\ (pc' # pc \/ idx' # idx)

FairSpec == Spec /\ WF_<<pc, idx>>(RunStep)

\* ---------------------------------------------------------------- FaultSpec
\* The engine with a cycle that fails.  _run_simulation_loop calls
\* _process_bot_cycle(bot) with no handler around it, and run() calls the loop
\* with none either: an exception raised while a market is evaluated for the
\* bot, after its positions were updated, leaves the for loop, the while loop
\* and run().  pc = "aborted" is the run left by the exception.
BotCycleRaises ==
    /\ pc = "bots"
    /\ LET maintained == UpdateBotPositions(bots[idx], markets, current_time)
       IN /\ Len(maintained.open_trades) < maintained.strategy.max_positions
          /\ ActiveMarkets(markets, current_time) # {}
          /\ bots' = [bots EXCEPT ![idx] = maintained]
    /\ pc' = "aborted"
    /\ UNCHANGED <<markets, current_time, idx, harness>>

FaultNext == Next \/ BotCycleRaises

FaultSpec == Init /\ [][FaultNext]_vars

\* ======================================================== StrategyGenerator
\* The strategy generator entered directly: call = [op, count, u, v] and ret
\* the list returned.  Units as for the engine's strategies: fractions per
\* mille, prices per mille, g score in millionths, money in cents, days in
\* hundredths of a day, max_slippage_pct in hundredths of a percent (the code
\* keeps it in percent and divides by 100 where it is used).
MaxCount == 17

NumArchetypes == 8
PositionCapPct == 400
MinTestTradeSize == 500
MinMaxPositions == 5

\* ARCHETYPES, in the order of the dict.
ARCHETYPES ==
    << [name |-> "aggressive", stop_loss_pct |-> <<100, 250>>,
        take_profit_pct |-> <<200, 600>>, min_confidence |-> <<350, 500>>,
        min_g_score |-> <<100, 500>>, max_position_pct |-> <<150, 300>>,
        max_positions |-> <<40, 60>>, min_price |-> <<20, 100>>,
        max_price |-> <<900, 950>>, prefer_short_term |-> FALSE],
       [name |-> "conservative", stop_loss_pct |-> <<80, 150>>,
        take_profit_pct |-> <<150, 300>>, min_confidence |-> <<650, 800>>,
        min_g_score |-> <<500, 2000>>, max_position_pct |-> <<50, 100>>,
        max_positions |-> <<10, 20>>, min_price |-> <<150, 300>>,
        max_price |-> <<650, 750>>, prefer_short_term |-> FALSE],
       [name |-> "balanced", stop_loss_pct |-> <<150, 250>>,
        take_profit_pct |-> <<250, 450>>, min_confidence |-> <<450, 600>>,
        min_g_score |-> <<200, 1000>>, max_position_pct |-> <<80, 150>>,
        max_positions |-> <<25, 40>>, min_price |-> <<50, 150>>,
        max_price |-> <<750, 850>>, prefer_short_term |-> FALSE],
       [name |-> "momentum", stop_loss_pct |-> <<120, 200>>,
        take_profit_pct |-> <<100, 250>>, min_confidence |-> <<400, 550>>,
        min_g_score |-> <<300, 1000>>, max_position_pct |-> <<100, 200>>,
        max_positions |-> <<35, 50>>, min_price |-> <<100, 250>>,
        max_price |-> <<800, 900>>, prefer_short_term |-> TRUE],
       [name |-> "value", stop_loss_pct |-> <<250, 400>>,
        take_profit_pct |-> <<500, 1000>>, min_confidence |-> <<550, 700>>,
        min_g_score |-> <<100, 400>>, max_position_pct |-> <<100, 200>>,
        max_positions |-> <<15, 30>>, min_price |-> <<30, 120>>,
        max_price |-> <<600, 750>>, prefer_short_term |-> FALSE],
       [name |-> "scalper", stop_loss_pct |-> <<50, 100>>,
        take_profit_pct |-> <<80, 150>>, min_confidence |-> <<500, 650>>,
        min_g_score |-> <<1000, 5000>>, max_position_pct |-> <<30, 80>>,
        max_positions |-> <<50, 80>>, min_price |-> <<200, 400>>,
        max_price |-> <<600, 800>>, prefer_short_term |-> TRUE],
       [name |-> "high_roller", stop_loss_pct |-> <<200, 350>>,
        take_profit_pct |-> <<400, 800>>, min_confidence |-> <<300, 450>>,
        min_g_score |-> <<50, 300>>, max_position_pct |-> <<200, 400>>,
        max_positions |-> <<10, 20>>, min_price |-> <<20, 80>>,
        max_price |-> <<850, 950>>, prefer_short_term |-> FALSE],
       [name |-> "diversifier", stop_loss_pct |-> <<150, 250>>,
        take_profit_pct |-> <<200, 350>>, min_confidence |-> <<450, 550>>,
        min_g_score |-> <<200, 800>>, max_position_pct |-> <<30, 60>>,
        max_positions |-> <<60, 100>>, min_price |-> <<80, 200>>,
        max_price |-> <<700, 850>>, prefer_short_term |-> FALSE] >>

\* The points of a range a draw lands on, per mille of the way from its low
\* end to its high end.
UnitDraws == {0, 500, 1000}

\* Mutant: the draw is laid off from the high end of the range.
UniformAboveHigh(low, high, u) == high + (u * (high - low)) \div 1000

\* random.uniform(low, high) (and random.randint on integers) at draw u
Uniform(low, high, u) == low + (u * (high - low)) \div 1000

\* rand_range(key, default): every archetype names every key it is asked for.
RandRange(params, key, u) == Uniform(params[key][1], params[key][2], u)

\* _generate_single_strategy(strategy_id, archetype, variation_index); u is
\* the draw of the fields that bound from below (and of the sizes), v the
\* draw of the fields that bound from above.
GenerateSingleStrategy(strategyId, archetype, variationIndex, capital, u, v) ==
    LET params == ARCHETYPES[archetype]
        maxPosPct == RandRange(params, "max_position_pct", u)
        maxPosSize == Min((capital * maxPosPct) \div 1000,
                          (capital * PositionCapPct) \div 1000)
        testSize == Max(MinTestTradeSize,
                        (capital * Uniform(20, 80, u)) \div 1000)
        capitalScale == Min(1000, capital \div 100)
        scaledLow == (params.max_positions[1] * capitalScale) \div 1000
        scaledHigh == (params.max_positions[2] * capitalScale) \div 1000
        maxPositions == Max(MinMaxPositions,
                            Uniform(Max(5, scaledLow), Max(10, scaledHigh), u))
    IN [id |-> strategyId,
        name |-> <<params.name, variationIndex + 1>>,
        initial_capital |-> capital,
        max_position_size |-> maxPosSize,
        max_position_pct |-> maxPosPct,
        stop_loss_pct |-> RandRange(params, "stop_loss_pct", u),
        take_profit_pct |-> RandRange(params, "take_profit_pct", v),
        swing_enabled |-> (u > 200),
        swing_take_profit_pct |-> Uniform(80, 200, v),
        swing_stop_loss_pct |-> Uniform(50, 120, u),
        min_g_score |-> RandRange(params, "min_g_score", u),
        min_expected_roi |-> Uniform(30, 150, u),
        min_confidence |-> RandRange(params, "min_confidence", u),
        high_confidence |-> Uniform(650, 850, v),
        min_price |-> RandRange(params, "min_price", u),
        max_price |-> RandRange(params, "max_price", v),
        min_volume |-> Uniform(500, 5000, u),
        min_liquidity |-> Uniform(200, 2000, u),
        min_days |-> Uniform(5, 100, u),
        max_days |-> Uniform(6000, 36500, v),
        prefer_short_term |-> params.prefer_short_term,
        max_positions |-> maxPositions,
        max_swing_positions |-> Max(2, (maxPositions * Uniform(300, 500, v)) \div 1000),
        max_long_positions |-> Max(3, (maxPositions * Uniform(500, 800, v)) \div 1000),
        test_trade_enabled |-> (v > 300),
        test_trade_size |-> testSize,
        max_slippage_pct |-> Uniform(150, 500, v),
        strategy_type |-> params.name]

\* Mutant: the remainder is not handed out.
NumForArchetypeBase(count, i) == count \div NumArchetypes

\* num_for_archetype of the archetype at index i (from 0)
NumForArchetype(count, i) ==
    count \div NumArchetypes + (IF i < count % NumArchetypes THEN 1 ELSE 0)

\* The inner loop "for j in range(num_for_archetype)" from j on, appending to
\* strategies; the ids run on from the length of the list.
RECURSIVE GenerateVariations(_, _, _, _, _, _, _)
GenerateVariations(strategies, archetype, j, num, capital, u, v) ==
    IF j >= num THEN strategies
    ELSE GenerateVariations(
             Append(strategies,
                    GenerateSingleStrategy(Len(strategies) + 1, archetype, j,
                                           capital, u, v)),
             archetype, j + 1, num, capital, u, v)

\* The outer loop "for i, archetype in enumerate(archetype_names)" from the
\* archetype at index i (from 0) on.
RECURSIVE GenerateArchetypes(_, _, _, _, _, _)
GenerateArchetypes(strategies, i, count, capital, u, v) ==
    IF i >= NumArchetypes THEN strategies
    ELSE GenerateArchetypes(
             GenerateVariations(strategies, i + 1, 0, NumForArchetype(count, i),
                                capital, u, v),
             i + 1, count, capital, u, v)

\* The orders random.shuffle can leave a list of n elements in: position k
\* takes the element at perm[k].  The rotations and the reversed rotations.
Shuffles(n) ==
    IF n = 0 THEN {<< >>}
    ELSE {[k \in 1 .. n |-> ((k + r - 1) % n) + 1] : r \in 0 .. n - 1}
         \cup {[k \in 1 .. n |-> ((n - k + r) % n) + 1] : r \in 0 .. n - 1}

Shuffled(seq, perm) == [k \in 1 .. Len(seq) |-> seq[perm[k]]]

\* Mutant: the ids given at generation are kept after the shuffle.
ReassignNone(strategies) == strategies

\* "for i, strategy in enumerate(strategies): strategy.id = i + 1"
ReassignIds(strategies) ==
    [k \in 1 .. Len(strategies) |-> [strategies[k] EXCEPT !.id = k]]

\* generate_strategies(count); perm is the order the shuffle leaves.
GenerateStrategies(count, capital, u, v, perm) ==
    ReassignIds(Shuffled(GenerateArchetypes(<< >>, 0, count, capital, u, v), perm))

\* ----------------------------------------------------------- GeneratorSpec
\* The engine's fields while a component operation is entered directly: pc
\* is "call" before the operation and "returned" after it.
Idle ==
    /\ markets = << >> /\ bots = << >>
    /\ current_time = start_time /\ pc = "call" /\ idx = 1

GeneratorInit ==
    /\ Idle
    /\ \E count \in 0 .. MaxCount, u \in UnitDraws, v \in UnitDraws :
         call = [op |-> "generate_strategies", count |-> count, u |-> u, v |-> v]
    /\ ret = NONE
    /\ rng = NONE

\* StrategyGenerator(initial_capital).generate_strategies(count)
Generate ==
    /\ pc = "call" /\ call.op = "generate_strategies"
    /\ \E perm \in Shuffles(call.count) :
         ret' = GenerateStrategies(call.count, InitialCapital, call.u, call.v, perm)
    /\ pc' = "returned"
    /\ UNCHANGED <<markets, bots, current_time, idx, call, rng>>

GeneratorNext == Generate

GeneratorSpec == GeneratorInit /\ [][GeneratorNext]_vars

\* ------------------------------------------------------- generator claims
GeneratorReturned == pc = "returned" /\ call.op = "generate_strategies"

\* The instances of the archetype at table position a in a strategy list.
InstanceCount(strategies, a) ==
    Cardinality({k \in 1 .. Len(strategies) :
                   strategies[k].strategy_type = ARCHETYPES[a].name})

\* C12: generate_strategies(count) returns exactly count configs; after the
\* shuffle and the re-indexing the config at list position i carries id i, so
\* the ids are exactly 1 .. count with no duplicate.
C12_SequentialIds ==
    GeneratorReturned =>
        /\ Len(ret) = call.count
        /\ \A i \in 1 .. Len(ret) : ret[i].id = i
        /\ {ret[i].id : i \in 1 .. Len(ret)} = 1 .. call.count
        /\ \A i, j \in 1 .. Len(ret) : ret[i].id = ret[j].id => i = j

\* A full list whose shuffle moved the first config generated (the first
\* aggressive variation, generated with id 1) away from the head.
C12_Witness ==
    /\ GeneratorReturned
    /\ call.count = MaxCount
    /\ ret[1].name # <<"aggressive", 1>>
    /\ \E i \in 2 .. Len(ret) : ret[i].name = <<"aggressive", 1>> /\ ret[i].id = i

\* C13: count is split as evenly as possible over the 8 archetypes: the
\* archetype at index i (from 0) gets count div 8 instances, one more if
\* i < count mod 8; any two archetypes differ by at most one instance and the
\* instances sum to count.
C13_EvenSplit ==
    GeneratorReturned =>
        /\ \A a \in 1 .. 8 :
             InstanceCount(ret, a)
               = (call.count \div 8) + (IF a - 1 < call.count % 8 THEN 1 ELSE 0)
        /\ \A a, b \in 1 .. 8 :
             InstanceCount(ret, a) - InstanceCount(ret, b) <= 1
        /\ SumOver([a \in 1 .. 8 |-> InstanceCount(ret, a)], 1) = call.count

\* A count above 8 that 8 does not divide: some archetypes get one more.
C13_Witness ==
    /\ GeneratorReturned
    /\ call.count > 8 /\ call.count % 8 # 0
    /\ InstanceCount(ret, 1) = InstanceCount(ret, 8) + 1

\* The fraction fields of a config lie in [0, 1] (per mille: 0 .. 1000).
FractionsInUnit(c) ==
    \A x \in {c.stop_loss_pct, c.take_profit_pct, c.swing_take_profit_pct,
              c.swing_stop_loss_pct, c.max_position_pct} :
        0 <= x /\ x <= 1000

\* C14 as claimed: all percentage fields, max slippage among them, lie in
\* [0, 1], min_price < max_price and min_days < max_days.  max_slippage_pct
\* is in hundredths of a percent here, so 1.0 is 100.
C14_AllPercentagesInUnit ==
    GeneratorReturned =>
        \A i \in 1 .. Len(ret) :
            /\ FractionsInUnit(ret[i])
            /\ 0 <= ret[i].max_slippage_pct /\ ret[i].max_slippage_pct <= 100
            /\ ret[i].min_price < ret[i].max_price
            /\ ret[i].min_days < ret[i].max_days

\* C14 amended: the fraction fields (stop-loss, take-profit, swing stop and
\* take-profit, max-position fraction) lie in [0, 1]; max_slippage_pct is a
\* number of percent in [1.5, 5.0]; min_price < max_price; min_days <
\* max_days.
C14_StrategyInvariants ==
    GeneratorReturned =>
        \A i \in 1 .. Len(ret) :
            /\ FractionsInUnit(ret[i])
            /\ 150 <= ret[i].max_slippage_pct /\ ret[i].max_slippage_pct <= 500
            /\ ret[i].min_price < ret[i].max_price
            /\ ret[i].min_days < ret[i].max_days

\* Every archetype generated, with the lower bounds drawn at the high end of
\* their ranges and the upper bounds at the low end.
C14_Witness ==
    /\ GeneratorReturned
    /\ call.u = 1000 /\ call.v = 0
    /\ \A a \in 1 .. 8 : InstanceCount(ret, a) >= 1
    /\ \E i \in 1 .. Len(ret) : ret[i].min_price = 400 /\ ret[i].max_price = 600

\* ============================================================ EvaluateSpec
\* The entry filters of the engine entered directly: _calculate_confidence,
\* _compute_g and _evaluate_market_for_bot on arguments around every tier
\* and guard of theirs.
PriceArgs == {0 - 100, 0, 100, 900, 1000, 2000, 5000, 7000, 7100, 8500, 8600,
              9900, 10000, 10100}
VolumeArgs == {0, 5000, 5001, 10000, 10001, 50000, 50001}
LiquidityArgs == {0, 1000, 1001, 5000, 5001}
HourArgs == {0 - 24, 0, 4, 71, 72, 167, 168, 720, 721, 1440, 1441}
GArgs == {1, 5000, 5001, 10000, 10001}

\* A hand-built configuration whose filters let every price in [0, 1] and
\* every resolution time from a day ago on through.
OpenStrategy ==
    [BaseStrategy EXCEPT !.strategy_type = "open",
                         !.min_price = 0, !.max_price = 1000,
                         !.min_volume = 0, !.min_liquidity = 0,
                         !.min_days = 0 - 100, !.max_days = 36500,
                         !.min_g_score = 0, !.min_expected_roi = 0,
                         !.min_confidence = 0]

EvaluateInit ==
    /\ Idle
    /\ \/ \E price \in PriceArgs, volume \in VolumeArgs,
             liquidity \in LiquidityArgs, hours \in HourArgs, g \in GArgs :
            call = [op |-> "calculate_confidence", price |-> price,
                    volume |-> volume, liquidity |-> liquidity,
                    hours |-> hours, g |-> g]
       \/ \E price \in PriceArgs, hours \in HourArgs :
            call = [op |-> "compute_g", price |-> price, hours |-> hours]
       \/ \E strategy \in {OpenStrategy, BaseStrategy}, price \in PriceArgs,
             hours \in HourArgs, volume \in VolumeArgs :
            call = [op |-> "evaluate_market_for_bot", strategy |-> strategy,
                    price |-> price, hours |-> hours, volume |-> volume]
    /\ ret = NONE
    /\ rng = NONE

\* self._calculate_confidence(price, volume, liquidity, resolution_days, g_score)
Confidence ==
    /\ pc = "call" /\ call.op = "calculate_confidence"
    /\ ret' = CalculateConfidence(call.price, call.volume, call.liquidity,
                                  call.hours, call.g)
    /\ pc' = "returned"
    /\ UNCHANGED <<markets, bots, current_time, idx, call, rng>>

\* self._compute_g(price, resolution_days)
Growth ==
    /\ pc = "call" /\ call.op = "compute_g"
    /\ ret' = ComputeG(call.price, call.hours)
    /\ pc' = "returned"
    /\ UNCHANGED <<markets, bots, current_time, idx, call, rng>>

\* The market an evaluation is asked about: quoted at price, ending hours
\* after the current time, its liquidity a tenth of its volume.
CandidateMarket(c) ==
    NewMarket(1, <<c.price, c.volume, c.volume \div 10, c.hours, 0, 0>>)

\* self._evaluate_market_for_bot(bot, market)
Evaluate ==
    /\ pc = "call" /\ call.op = "evaluate_market_for_bot"
    /\ ret' = EvaluateMarketForBot(NewBot(1, call.strategy),
                                   CandidateMarket(call), start_time)
    /\ pc' = "returned"
    /\ UNCHANGED <<markets, bots, current_time, idx, call, rng>>

EvaluateNext == Confidence \/ Growth \/ Evaluate

EvaluateSpec == EvaluateInit /\ [][EvaluateNext]_vars

\* -------------------------------------------------------- evaluation claims
\* C15: for all inputs the confidence lies in [0, 0.95] however many bonus
\* tiers stack, and it does not decrease when the volume or the liquidity
\* grows with the other inputs held fixed.
C15_ConfidenceBoundedMonotone ==
    (pc = "returned" /\ call.op = "calculate_confidence") =>
        /\ 0 <= ret /\ ret <= 950
        /\ \A volume \in VolumeArgs :
             volume >= call.volume =>
               ret <= CalculateConfidence(call.price, volume, call.liquidity,
                                          call.hours, call.g)
        /\ \A liquidity \in LiquidityArgs :
             liquidity >= call.liquidity =>
               ret <= CalculateConfidence(call.price, call.volume, liquidity,
                                          call.hours, call.g)

\* Every factor in its highest tier: the bonuses stack to 0.89.
C15_Witness ==
    /\ pc = "returned" /\ call.op = "calculate_confidence"
    /\ call.volume > 50000 /\ call.liquidity > 5000
    /\ call.price = 5000 /\ call.hours = 168 /\ call.g > 10000
    /\ ret = 890

\* The growth score of a call's arguments is undefined.
NoGrowthScore(c) == c.price <= 0 \/ c.price >= PriceScale \/ c.hours <= 0

\* C16: the growth score is undefined (None) whenever price <= 0, price >= 1
\* or resolution days <= 0, and defined and strictly positive otherwise; a
\* candidate whose growth score is undefined is turned down (should_buy
\* false, confidence 0.0).
C16_UndefinedGrowthRejected ==
    /\ (pc = "returned" /\ call.op = "compute_g") =>
         /\ (ret = NONE) <=> NoGrowthScore(call)
         /\ ~NoGrowthScore(call) => ret > 0
    /\ (pc = "returned" /\ call.op = "evaluate_market_for_bot") =>
         (NoGrowthScore(call) => ret = <<FALSE, 0>>)

\* A candidate quoted at exactly 1.0 that passes the price, volume, liquidity
\* and time filters of its strategy and is turned down at the growth score.
C16_Witness ==
    /\ pc = "returned" /\ call.op = "evaluate_market_for_bot"
    /\ call.price = PriceScale /\ call.hours = 4
    /\ call.price <= call.strategy.max_price * 10
    /\ call.volume >= call.strategy.min_volume
    /\ ret = <<FALSE, 0>>

\* ============================================================= ResultsSpec
\* _compile_results entered on the bots a run left behind: call = [op, bots]
\* and ret the results object (the fields that hold snapshots and counts).
MaxSnapshots == 22
TopK == 20

\* BotState.win_rate, in hundredths of a percent
WinRate(bot) ==
    IF bot.winning_trades + bot.losing_trades <= 0 THEN 0
    ELSE (bot.winning_trades * 10000) \div (bot.winning_trades + bot.losing_trades)

\* BotState.to_dict()
ToDict(bot) ==
    [id |-> bot.id,
     strategy_type |-> bot.strategy.strategy_type,
     initial_capital |-> bot.initial_capital,
     cash_balance |-> bot.cash_balance,
     portfolio_value |-> PortfolioValue(bot),
     total_pnl |-> bot.total_pnl,
     total_return_pct |-> TotalReturnPct(bot),
     total_trades |-> bot.total_trades,
     winning_trades |-> bot.winning_trades,
     losing_trades |-> bot.losing_trades,
     win_rate |-> WinRate(bot),
     peak_value |-> bot.peak_value,
     max_drawdown |-> bot.max_drawdown,
     open_positions |-> Len(bot.open_trades)]

\* Where a snapshot goes into a list sorted by return, highest first: behind
\* every snapshot whose return is at least its own (the sort is stable).
RECURSIVE InsertDescending(_, _, _)
InsertDescending(sorted, snapshot, k) ==
    IF k > Len(sorted) THEN Append(sorted, snapshot)
    ELSE IF sorted[k].total_return_pct >= snapshot.total_return_pct
    THEN InsertDescending(sorted, snapshot, k + 1)
    ELSE SubSeq(sorted, 1, k - 1) \o <<snapshot>> \o SubSeq(sorted, k, Len(sorted))

\* Mutant: the sort runs lowest return first.
RECURSIVE SortedAscending(_, _, _)
SortedAscending(results, k, sorted) ==
    IF k > Len(results) THEN sorted
    ELSE SortedAscending(
             results, k + 1,
             LET before == {j \in 1 .. Len(sorted) :
                              sorted[j].total_return_pct <= results[k].total_return_pct}
             IN SubSeq(sorted, 1, Cardinality(before)) \o <<results[k]>>
                \o SubSeq(sorted, Cardinality(before) + 1, Len(sorted)))

\* sorted(bot_results, key=lambda x: x['total_return_pct'], reverse=True),
\* from the snapshot at k on, into sorted.
RECURSIVE SortedByReturn(_, _, _)
SortedByReturn(results, k, sorted) ==
    IF k > Len(results) THEN sorted
    ELSE SortedByReturn(results, k + 1, InsertDescending(sorted, results[k], 1))

\* sorted_results[:20] and sorted_results[-20:]
FirstK(seq) == SubSeq(seq, 1, Min(TopK, Len(seq)))
LastK(seq) == SubSeq(seq, Max(1, Len(seq) - TopK + 1), Len(seq))

\* _compile_results(simulation_id, sim_start) on self.bots
CompileResults(botStates) ==
    LET bot_results == [k \in 1 .. Len(botStates) |-> ToDict(botStates[k])]
        sorted_results == SortedByReturn(bot_results, 1, << >>)
    IN [num_bots |-> Len(botStates),
        bot_results |-> bot_results,
        profitable_bots |-> Cardinality({k \in 1 .. Len(bot_results) :
                                           bot_results[k].total_return_pct > 0}),
        top_performers |-> FirstK(sorted_results),
        bottom_performers |-> LastK(sorted_results)]

\* The cash a finished bot is left with: the capital moved by a step of $10
\* times a residue that runs with the bot's id.
FinalCash(id, mult, offset, modulus) ==
    InitialCapital + (((id * mult + offset) % modulus) - 1) * 1000

ResultsInit ==
    /\ Idle
    /\ \E n \in 0 .. MaxSnapshots, mult \in 0 .. 3, offset \in 0 .. 1,
          modulus \in {2, 3, 5} :
         call = [op |-> "compile_results",
                 bots |-> [id \in 1 .. n |->
                             [NewBot(id, BaseStrategy) EXCEPT
                                !.cash_balance = FinalCash(id, mult, offset, modulus)]]]
    /\ ret = NONE
    /\ rng = NONE

\* self._compile_results(simulation_id, sim_start)
Compile ==
    /\ pc = "call" /\ call.op = "compile_results"
    /\ ret' = CompileResults(call.bots)
    /\ pc' = "returned"
    /\ UNCHANGED <<markets, bots, current_time, idx, call, rng>>

ResultsNext == Compile

ResultsSpec == ResultsInit /\ [][ResultsNext]_vars

\* ---------------------------------------------------------- results claims
\* The ids of the snapshots of a list.
IdsOf(seq) == {seq[k].id : k \in 1 .. Len(seq)}

\* C18: the compiled results hold exactly one snapshot per bot;
\* top_performers is the first K = 20 (all if fewer) of the bots ranked by
\* total_return_pct, highest first, and bottom_performers the last K of that
\* ranking: both are sorted, no bot outside top_performers has a strictly
\* higher return than one inside, and none outside bottom_performers a
\* strictly lower return than one inside.
C18_TopAndBottomSlices ==
    (pc = "returned" /\ call.op = "compile_results") =>
        LET n == Len(call.bots)
            all == ret.bot_results
            top == ret.top_performers
            bottom == ret.bottom_performers
        IN /\ Len(all) = n
           /\ \A k \in 1 .. n : all[k].id = call.bots[k].id
           /\ Len(top) = Min(20, n) /\ Len(bottom) = Min(20, n)
           /\ Cardinality(IdsOf(top)) = Len(top)
           /\ Cardinality(IdsOf(bottom)) = Len(bottom)
           /\ \A k \in 1 .. Len(top) : \E j \in 1 .. n : top[k] = all[j]
           /\ \A k \in 1 .. Len(bottom) : \E j \in 1 .. n : bottom[k] = all[j]
           /\ \A k \in 1 .. Len(top) - 1 :
                top[k].total_return_pct >= top[k + 1].total_return_pct
           /\ \A k \in 1 .. Len(bottom) - 1 :
                bottom[k].total_return_pct >= bottom[k + 1].total_return_pct
           /\ \A j \in 1 .. n : all[j].id \notin IdsOf(top) =>
                \A k \in 1 .. Len(top) :
                    all[j].total_return_pct <= top[k].total_return_pct
           /\ \A j \in 1 .. n : all[j].id \notin IdsOf(bottom) =>
                \A k \in 1 .. Len(bottom) :
                    all[j].total_return_pct >= bottom[k].total_return_pct

\* More than K bots with three different returns: some bots are left out of
\* each slice, and the slices differ.
C18_Witness ==
    /\ pc = "returned" /\ call.op = "compile_results"
    /\ Len(call.bots) > 20
    /\ Cardinality({ret.bot_results[k].total_return_pct :
                      k \in 1 .. Len(ret.bot_results)}) >= 3
    /\ ret.top_performers # ret.bottom_performers
    /\ ret.top_performers[1].total_return_pct
         > ret.bottom_performers[20].total_return_pct

\* ================================================================ SeedSpec
\* Simulators built with a seed and run, with the process-wide generators
\* followed: rng = [seed, pos] is the stream the generators are on and how
\* many draws were taken from it.  call is the list of simulators built
\* (their seed argument, NONE for seed=None) and ret the list of runs made,
\* each with the simulator it ran on and what the run produced.
MaxSimulators == 2
MaxRuns == 3

\* The seed arguments simulators are built with.
Seeds == {NONE, 7, 8}

\* The draw at position pos of the stream of a seed, per mille: a fixed
\* function of the two, different at neighbouring positions.
Draw(seed, pos) == (seed * 373 + pos * 211 + 97) % 1001

\* The order random.shuffle leaves n elements in when its draw is d.
DrawnShuffle(n, d) ==
    IF n = 0 THEN << >> ELSE [k \in 1 .. n |-> ((k + (d % n) - 1) % n) + 1]

\* The draws one run takes: three of the strategy generator, one per market
\* generated, one of the simulation loop.
DrawsPerRun == 3 + NumMarkets + 1

\* "if seed is not None: random.seed(seed); np.random.seed(seed)"
Seeded(generator, seed) ==
    IF seed # NONE THEN [seed |-> seed, pos |-> 0] ELSE generator

\* run() from the generator state g: the strategies of generate_strategies,
\* the initial prices of generate_markets (random.uniform(0.20, 0.75)) and
\* the shock the loop draws first, each from the next draws of the stream.
RunOutcome(g) ==
    [strategies |->
         GenerateStrategies(NumBots, InitialCapital,
                            Draw(g.seed, g.pos), Draw(g.seed, g.pos + 1),
                            DrawnShuffle(NumBots, Draw(g.seed, g.pos + 2))),
     prices |-> [m \in MarketIds |->
                   Uniform(2000, 7500, Draw(g.seed, g.pos + 2 + m))],
     shock |-> Draw(g.seed, g.pos + 3 + NumMarkets)]

SeedInit ==
    /\ Idle
    /\ call = << >>
    /\ ret = << >>
    /\ rng = [seed |-> 0, pos |-> 0]

\* MonteCarloSimulator(num_bots, initial_capital, simulation_days,
\* num_markets, seed): the constructors of StrategyGenerator and of
\* MarketSimulator each seed the process-wide generators.
Construct ==
    /\ pc = "call" /\ Len(call) < MaxSimulators
    /\ \E seed \in Seeds :
         /\ call' = Append(call, [seed |-> seed])
         /\ rng' = Seeded(Seeded(rng, seed), seed)
    /\ UNCHANGED <<engine, ret>>

\* simulator.run() on a simulator built before: it draws from the
\* process-wide generators as they stand.
Run ==
    /\ pc = "call" /\ Len(ret) < MaxRuns
    /\ \E s \in 1 .. Len(call) :
         ret' = Append(ret, [simulator |-> s, seed |-> call[s].seed,
                             outcome |-> RunOutcome(rng)])
    /\ rng' = [rng EXCEPT !.pos = @ + DrawsPerRun]
    /\ UNCHANGED <<engine, call>>

SeedNext == Construct \/ Run

SeedSpec == SeedInit /\ [][SeedNext]_vars

\* ------------------------------------------------------------- seed claims
\* C19: two runs of the simulator with the same seed and the same
\* configuration produce the same strategies, the same market prices and
\* the same results.
C19_SameSeedSameRun ==
    \A i, j \in 1 .. Len(ret) :
        (ret[i].seed # NONE /\ ret[i].seed = ret[j].seed)
          => ret[i].outcome = ret[j].outcome

\* ============================================================= VariantSpec
\* The opportunity evaluation of the three engines entered directly on the
\* same candidate: MonteCarloSimulator._evaluate_market_for_bot followed by
\* the size test of _execute_buy, LivePaperTradingSystem.
\* evaluate_market_for_bot, and AutoTradingBot._evaluate_market behind the
\* volume filter of its market fetch.  call = [variant, strategy, price,
\* volume, liquidity, hours] and ret = <<buy, confidence>>.
Variants == {"simulator", "live", "auto"}
VariantVolumes == VolumeArgs \cup {100000, 100001}
VariantLiquidities == {500, 1000, 1001, 5000, 5001, 10000, 10001}
VariantPrices == {100, 900, 1000, 2000, 5000, 7000, 7100, 8500, 8600, 9900}
VariantHours == {4, 71, 72, 167, 168, 720, 721, 1440, 1441}

\* OpenStrategy asking for a confidence of 0.90.
ConfidentStrategy == [OpenStrategy EXCEPT !.strategy_type = "confident",
                                          !.min_confidence = 900]

\* run_live_paper_trading.py _compute_g
LiveComputeG(price, hours) ==
    IF price <= 0 \/ price >= PriceScale \/ hours <= 0 THEN NONE
    ELSE IF hours + 24 <= 0 THEN NONE
    ELSE (Log1pReturn[price \div 100] * 24) \div (hours + 24)

\* run_live_paper_trading.py _calculate_confidence
LiveCalculateConfidence(price, volume, liquidity, hours, g) ==
    LET volumeBonus == IF volume > 50000 THEN 100
                       ELSE IF volume > 10000 THEN 60
                       ELSE IF volume > 5000 THEN 30 ELSE 0
        liquidityBonus == IF liquidity > 5000 THEN 80
                          ELSE IF liquidity > 1000 THEN 40 ELSE 0
        priceBonus == IF 2000 <= price /\ price <= 7000 THEN 80
                      ELSE IF 1000 <= price /\ price <= 8500 THEN 40 ELSE 0
        timeBonus == IF 7 * 24 <= hours /\ hours <= 30 * 24 THEN 80
                     ELSE IF 3 * 24 <= hours /\ hours <= 60 * 24 THEN 40 ELSE 0
        gBonus == IF g > 10000 THEN 50 ELSE IF g > 5000 THEN 30 ELSE 0
    IN Min(500 + volumeBonus + liquidityBonus + priceBonus + timeBonus
           + gBonus, 950)

\* float(market.get("liquidity") or volume * 0.1)
FeedLiquidity(liquidity, volume) ==
    IF liquidity = 0 THEN volume \div 10 ELSE liquidity

\* LivePaperTradingSystem.evaluate_market_for_bot(bot, market) for a bot
\* with cash and no open trade: <<TRUE, confidence>> where it returns the
\* buy tuple, <<FALSE, 0>> where it returns None.
LiveEvaluateMarketForBot(config, cash, price, volume, liquidityField, hours) ==
    LET liquidity == FeedLiquidity(liquidityField, volume)
        g == LiveComputeG(price, hours)
        confidence == LiveCalculateConfidence(price, volume, liquidity, hours, g)
        isHighConf == confidence >= config.high_confidence
        positionValue ==
            IF config.test_trade_enabled /\ ~isHighConf
            THEN Min(config.test_trade_size, (cash * 5) \div 100)
            ELSE Min(config.max_position_size,
                     (cash * config.max_position_pct) \div 1000)
    IN IF 0 >= config.max_positions THEN <<FALSE, 0>>
       ELSE IF hours <= 0 THEN <<FALSE, 0>>
       ELSE IF hours * 100 < config.min_days * 24
               \/ hours * 100 > config.max_days * 24
       THEN <<FALSE, 0>>
       ELSE IF price < config.min_price * 10 \/ price > config.max_price * 10
       THEN <<FALSE, 0>>
       ELSE IF volume < config.min_volume \/ liquidity < config.min_liquidity
       THEN <<FALSE, 0>>
       ELSE IF g = NONE \/ g < config.min_g_score THEN <<FALSE, 0>>
       ELSE IF ((100 - 2) * (PriceScale - price) * 10) \div price
               < config.min_expected_roi
       THEN <<FALSE, 0>>
       ELSE IF confidence < config.min_confidence THEN <<FALSE, 0>>
       ELSE IF positionValue < 500 \/ positionValue > cash THEN <<FALSE, 0>>
       ELSE <<TRUE, confidence>>

\* auto_trader.py _compute_g
AutoComputeG(price, hours) ==
    IF price <= 0 \/ price >= PriceScale \/ hours <= 0 THEN NONE
    ELSE IF hours + 24 <= 0 THEN NONE
    ELSE (Log1pReturn[price \div 100] * 24) \div (hours + 24)

\* auto_trader.py _calculate_confidence
AutoCalculateConfidence(price, volume, liquidity, hours, g) ==
    LET volumeBonus == IF volume > 100000 THEN 150
                       ELSE IF volume > 50000 THEN 100
                       ELSE IF volume > 10000 THEN 50 ELSE 0
        liquidityBonus == IF liquidity > 10000 THEN 100
                          ELSE IF liquidity > 5000 THEN 50 ELSE 0
        priceBonus == IF 2000 <= price /\ price <= 7000 THEN 100
                      ELSE IF 1000 <= price /\ price <= 8500 THEN 50 ELSE 0
        timeBonus == IF 7 * 24 <= hours /\ hours <= 30 * 24 THEN 100
                     ELSE IF 3 * 24 <= hours /\ hours <= 60 * 24 THEN 50 ELSE 0
        gBonus == IF g > 10000 THEN 50 ELSE 0
    IN Min(500 + volumeBonus + liquidityBonus + priceBonus + timeBonus
           + gBonus, 1000)

\* auto_trader.py _make_decision
MakeDecision(config, price, g, expectedRoi, confidence) ==
    IF confidence < config.min_confidence THEN "skip"
    ELSE IF g > 5000 /\ expectedRoi > 300 /\ confidence > 700 THEN "buy"
    ELSE IF g > config.min_g_score /\ expectedRoi > config.min_expected_roi
    THEN "buy"
    ELSE "hold"

RECURSIVE BestOpportunity(_, _, _, _, _, _, _, _)
\* The loop of _evaluate_market over the outcomes from position i on: the
\* opportunity kept is that of the outcome with the highest growth score
\* among those that pass the price, growth and ROI filters.
BestOpportunity(config, prices, volume, liquidity, hours, i, bestG, best) ==
    IF i > Len(prices) THEN best
    ELSE
      LET price == prices[i]
          g == AutoComputeG(price, hours)
          expectedRoi == ((100 - 2) * (PriceScale - price) * 10) \div price
          confidence == AutoCalculateConfidence(price, volume, liquidity,
                                                hours, g)
          passes == /\ ~(price < config.min_price * 10
                         \/ price > config.max_price * 10)
                    /\ ~(g = NONE \/ g < config.min_g_score)
                    /\ ~(expectedRoi < config.min_expected_roi)
                    /\ g > bestG
      IN IF passes
         THEN BestOpportunity(config, prices, volume, liquidity, hours, i + 1,
                              g, <<MakeDecision(config, price, g, expectedRoi,
                                                confidence) = "buy",
                                   confidence>>)
         ELSE BestOpportunity(config, prices, volume, liquidity, hours, i + 1,
                              bestG, best)

\* AutoTradingBot._evaluate_market(market) on a market that came through the
\* volume filter of _fetch_markets: <<decision is BUY, confidence>> of the
\* opportunity returned, <<FALSE, 0>> where there is none.
AutoEvaluateMarket(config, prices, volume, liquidityField, hours) ==
    IF volume < config.min_volume THEN <<FALSE, 0>>
    ELSE IF hours * 100 < config.min_days * 24
            \/ hours * 100 > config.max_days * 24
    THEN <<FALSE, 0>>
    ELSE BestOpportunity(config, prices, volume,
                         FeedLiquidity(liquidityField, volume), hours, 1,
                         0 - 999000000, <<FALSE, 0>>)

\* The engine's decision on the candidate: _evaluate_market_for_bot, then the
\* size test that opens _execute_buy.
SimulatorDecision(c) ==
    LET bot == NewBot(1, c.strategy)
        market == NewMarket(1, <<c.price, c.volume, c.liquidity, c.hours, 0, 0>>)
        eval == EvaluateMarketForBot(bot, market, start_time)
    IN IF eval[1] /\ ~BuyRejected(PositionSize(bot, eval[2]), bot.cash_balance)
       THEN eval ELSE <<FALSE, 0>>

VariantInit ==
    /\ Idle
    /\ \E variant \in Variants,
          strategy \in {OpenStrategy, BaseStrategy, ConfidentStrategy},
          price \in VariantPrices, volume \in VariantVolumes,
          liquidity \in VariantLiquidities, hours \in VariantHours :
         call = [variant |-> variant, strategy |-> strategy, price |-> price,
                 volume |-> volume, liquidity |-> liquidity, hours |-> hours]
    /\ ret = NONE
    /\ rng = NONE

EvaluateSimulator ==
    /\ pc = "call" /\ call.variant = "simulator"
    /\ ret' = SimulatorDecision(call)
    /\ pc' = "returned"
    /\ UNCHANGED <<markets, bots, current_time, idx, call, rng>>

EvaluateLive ==
    /\ pc = "call" /\ call.variant = "live"
    /\ ret' = LiveEvaluateMarketForBot(call.strategy,
                                       call.strategy.initial_capital,
                                       call.price, call.volume,
                                       call.liquidity, call.hours)
    /\ pc' = "returned"
    /\ UNCHANGED <<markets, bots, current_time, idx, call, rng>>

\* The feed quotes the "Yes" outcome at the price and "No" at its complement.
EvaluateAuto ==
    /\ pc = "call" /\ call.variant = "auto"
    /\ ret' = AutoEvaluateMarket(call.strategy,
                                 <<call.price, PriceScale - call.price>>,
                                 call.volume, call.liquidity, call.hours)
    /\ pc' = "returned"
    /\ UNCHANGED <<markets, bots, current_time, idx, call, rng>>

VariantNext == EvaluateSimulator \/ EvaluateLive \/ EvaluateAuto

VariantSpec == VariantInit /\ [][VariantNext]_vars

\* ---------------------------------------------------------- variant claims
\* C21: for the same price, volume, liquidity, resolution days and strategy
\* thresholds the simulation engine, the live paper trading system and the
\* auto trading bot apply the same filters, compute the same confidence and
\* reach the same buy / no-buy decision.
C21_SameEvaluation ==
    pc = "returned" => ret = SimulatorDecision(call)

\* =================================================================== claims
ClosedTrades(b) ==
    {bots[b].closed_trades[i] : i \in 1 .. Len(bots[b].closed_trades)}

OpenTrades(b) ==
    {bots[b].open_trades[i] : i \in 1 .. Len(bots[b].open_trades)}

\* Whatever the confidence, the bot's sized position exceeds its cash.
Oversized(bot) ==
    \A c \in {ConfidenceBase, ConfidenceCap} :
        PositionSize(bot, c) > bot.cash_balance

\* C1: every bot's cash_balance is >= 0 in every reachable state, and a bot
\* whose sized position value exceeds its cash never has a buy executed: it
\* keeps its whole capital and makes no trade.
C1_CashNonNegative ==
    \A b \in BotIds :
        /\ bots[b].cash_balance >= 0
        /\ Oversized(NewBot(b, bots[b].strategy))
             => /\ bots[b].total_trades = 0
                /\ bots[b].cash_balance = bots[b].initial_capital

\* The run is over, an oversized bot was offered the markets another bot
\* bought into, and some bot's cash went down to pay for open positions.
C1_Witness ==
    /\ pc = "done"
    /\ \E b \in BotIds : Oversized(NewBot(b, bots[b].strategy))
    /\ \E b \in BotIds : bots[b].total_trades > 0

ExitReasons == {"take_profit", "stop_loss", "resolution", "simulation_end"}

\* C2: after the full run (loop and final liquidation) no bot has an open
\* trade: every trade ever opened is in closed_trades, closed, with exit
\* reason simulation_end or an earlier reason.
C2_AllClosedAtEnd ==
    pc = "done" =>
        \A b \in BotIds :
            /\ bots[b].open_trades = << >>
            /\ Len(bots[b].closed_trades) = bots[b].total_trades
            /\ \A t \in ClosedTrades(b) :
                 t.status = "closed" /\ t.exit_reason \in ExitReasons

\* A finished run in which one bot had a trade force-closed at the end and
\* another trade closed earlier.
C2_Witness ==
    /\ pc = "done"
    /\ \E b \in BotIds :
         /\ \E t \in ClosedTrades(b) : t.exit_reason = "simulation_end"
         /\ \E t \in ClosedTrades(b) : t.exit_reason # "simulation_end"

ResolvedMarketsKept ==
    \A m \in MarketIds : markets[m].resolved => markets'[m] = markets[m]

\* C3: no step changes a market that is already resolved: the calls of
\* simulate_price_movement in later ticks leave its price, outcome,
\* resolution time, resolved flag, volume, liquidity and price history as
\* they were.
C3_ResolvedMarketFrozen ==
    [][ResolvedMarketsKept]_vars

\* A market resolved at least two ticks ago: simulate_price_movement has been
\* called on it again, with later times.
C3_Witness ==
    \E m \in MarketIds :
        /\ markets[m].resolved
        /\ current_time >= markets[m].resolution_time + 2 * TimeStepHours

\* C4: an unresolved market's price lies in [0.01, 0.99]; a resolved market's
\* price is exactly 1.0 with YES_WINS and exactly 0.0 with NO_WINS, and its
\* outcome is never UNRESOLVED.
C4_PriceInvariant ==
    \A m \in MarketIds :
        IF markets[m].resolved
        THEN /\ markets[m].final_outcome \in {YES_WINS, NO_WINS}
             /\ markets[m].final_outcome = YES_WINS
                  => markets[m].current_price = PriceScale
             /\ markets[m].final_outcome = NO_WINS
                  => markets[m].current_price = 0
        ELSE MinPrice <= markets[m].current_price
             /\ markets[m].current_price <= MaxPrice

\* One market resolved to YES at 1.0 while another, still unresolved, was
\* moved onto the lower clamp.
C4_Witness ==
    \E m, n \in MarketIds :
        /\ markets[m].resolved /\ markets[m].final_outcome = YES_WINS
        /\ ~markets[n].resolved
        /\ markets[n].price_history.len > 1
        /\ markets[n].current_price = MinPrice

PeakDrawdownKept ==
    \A b \in BotIds :
        /\ bots'[b].peak_value >= bots[b].peak_value
        /\ bots'[b].max_drawdown >= bots[b].max_drawdown

\* C5: no step lowers a bot's peak_value or max_drawdown.
C5_PeakDrawdownMonotone ==
    [][PeakDrawdownKept]_vars

\* A bot whose portfolio rose above its capital and later fell below the
\* peak, and whose latest drawdown is smaller than the recorded maximum.
C5_Witness ==
    \E b \in BotIds :
        /\ bots[b].peak_value > bots[b].initial_capital
        /\ bots[b].max_drawdown > 0
        /\ Drawdown(bots[b].peak_value, PortfolioValue(bots[b]))
             < bots[b].max_drawdown

\* Every market has had its simulate_price_movement call of the tick at
\* current_time: an unresolved market's last sample is of this tick and it
\* ends later, a resolved one was resolved no later than now.
MarketsSettled ==
    \A m \in MarketIds :
        IF markets[m].resolved
        THEN markets[m].resolution_time <= current_time
        ELSE /\ markets[m].price_history.last[1] = current_time
             /\ markets[m].end_time > current_time

TickOrderKept ==
    /\ (markets' # markets)
         => (pc = "markets" /\ bots' = bots /\ current_time' = current_time)
    /\ (pc = "bots") => MarketsSettled
    /\ (pc = "markets" /\ pc' = "markets") => (idx' = idx + 1)
    /\ (pc = "bots" /\ pc' = "bots") => (idx' = idx + 1)
    /\ (pc' = "bots" /\ pc # "bots") => (pc = "markets" /\ idx = NumMarkets)
    /\ (pc' = "advance") => (pc = "bots" /\ idx = NumBots)
    /\ (current_time' # current_time)
         => (/\ pc = "advance"
             /\ current_time' = current_time + TimeStepHours
             /\ markets' = markets
             /\ bots' = bots)
    /\ (pc' = "markets" /\ pc # "markets") => (pc = "advance")

\* C6: the phases of a tick run in a fixed order: markets change only in
\* the market phase, one market after the other; a bot cycle runs only once
\* every market is settled for the tick; the time advances only after the
\* last bot's cycle, by exactly one time step, and only then does the next
\* tick's market phase start.
C6_TickOrder ==
    [][TickOrderKept]_vars

\* The second tick's last bot cycle is about to run, a bot holding a trade
\* opened in the first tick.
C6_Witness ==
    /\ pc = "bots" /\ idx = NumBots
    /\ current_time = start_time + TimeStepHours
    /\ \E b \in BotIds : \E t \in OpenTrades(b) : t.entry_time = start_time

OtherStateKept ==
    pc \in {"bots", "liquidate"}
      => /\ markets' = markets
         /\ \A b \in BotIds : b # idx => bots'[b] = bots[b]

\* C7: while a bot's cycle or its final liquidation runs, no market changes
\* and no other bot's state changes.
C7_BotIsolation ==
    [][OtherStateKept]_vars

\* Two bots that have both traded, the second one's cycle just done.
C7_Witness ==
    /\ pc = "advance"
    /\ \A b \in BotIds : bots[b].total_trades > 0
    /\ \E b \in BotIds : bots[b].cash_balance # bots[1].cash_balance

\* C8: the 2% fee is deducted from the proceeds of a close if and only if
\* exit_price > entry_price, whatever the exit reason (per-tick or
\* simulation_end), and nothing is charged at entry: a closed trade's pnl is
\* shares * exit_price, less the fee on exits above the entry only, less its
\* cost, and the cash is the capital less the costs of the open trades plus
\* the pnl of the closed ones.
C8_FeeOnProfitableExitOnly ==
    \A b \in BotIds :
        /\ \A t \in ClosedTrades(b) :
             LET gross == (t.shares * t.exit_price) \div PriceScale
                 fee == IF t.exit_price > t.entry_price
                        THEN (gross * ExchangeFeePct) \div 100 ELSE 0
             IN t.pnl = gross - fee - t.cost
        /\ bots[b].cash_balance =
             bots[b].initial_capital
             - SumOver([i \in 1 .. Len(bots[b].open_trades) |->
                          bots[b].open_trades[i].cost], 1)
             + SumOver([i \in 1 .. Len(bots[b].closed_trades) |->
                          bots[b].closed_trades[i].pnl], 1)

\* Fee-bearing closes on both paths (a per-tick close and a liquidation
\* above the entry price) and a fee-free close below the entry price.
C8_Witness ==
    /\ \E b \in BotIds : \E t \in ClosedTrades(b) :
         t.exit_reason = "simulation_end" /\ t.exit_price > t.entry_price
    /\ \E b \in BotIds : \E t \in ClosedTrades(b) :
         t.exit_reason \in {"take_profit", "resolution"}
         /\ t.exit_price > t.entry_price
    /\ \E b \in BotIds : \E t \in ClosedTrades(b) :
         t.exit_reason \in {"stop_loss", "resolution"}
         /\ t.exit_price < t.entry_price

\* cash + sum(open trade shares * current market price)
MarkToMarket(bot, mkts) ==
    bot.cash_balance
    + SumOver([i \in 1 .. Len(bot.open_trades) |->
                 PositionValue(bot.open_trades[i].shares,
                               mkts[bot.open_trades[i].market_id].current_price)],
              1)

\* C9: a bot's portfolio value is its cash plus, for each open trade, the
\* shares times the current price of the trade's market.
C9_PortfolioMarkedToMarket ==
    \A b \in BotIds : PortfolioValue(bots[b]) = MarkToMarket(bots[b], markets)

\* C10: a bot whose min_confidence is above the confidence cap executes no
\* trade in the whole run, and its portfolio value stays its initial capital
\* exactly.
C10_UnreachableConfidence ==
    \A b \in BotIds :
        bots[b].strategy.min_confidence > ConfidenceCap
          => /\ bots[b].total_trades = 0
             /\ bots[b].open_trades = << >>
             /\ bots[b].closed_trades = << >>
             /\ PortfolioValue(bots[b]) = bots[b].initial_capital

\* A finished run with such a bot beside a bot that traded the same markets.
C10_Witness ==
    /\ pc = "done"
    /\ \E b \in BotIds : bots[b].strategy.min_confidence > ConfidenceCap
    /\ \E b \in BotIds : bots[b].total_trades > 0

\* The cost of the open trades, and the pnl of the closed ones, of a bot.
OpenCost(bot) ==
    SumOver([i \in 1 .. Len(bot.open_trades) |-> bot.open_trades[i].cost], 1)

ClosedPnl(bot) ==
    SumOver([i \in 1 .. Len(bot.closed_trades) |-> bot.closed_trades[i].pnl], 1)

\* C11: every trade a buy created has shares > 0 and cost = shares *
\* entry_price up to the rounding of one share unit, entry_price being the
\* slipped fill price (at least the quoted price floor, at most 0.99); and
\* the cost is what the buy took from the cash: cash = initial capital - cost
\* of the open trades + pnl of the closed trades.
C11_CostIsSharesTimesEntry ==
    \A b \in BotIds :
        /\ \A t \in OpenTrades(b) \cup ClosedTrades(b) :
              /\ t.shares > 0
              /\ t.cost * PriceScale - t.shares * t.entry_price >= 0
              /\ t.cost * PriceScale - t.shares * t.entry_price < t.entry_price
              /\ t.entry_price >= MinPrice /\ t.entry_price <= MaxFillPrice
        /\ bots[b].cash_balance
             = bots[b].initial_capital - OpenCost(bots[b]) + ClosedPnl(bots[b])

\* A bot holds a trade filled above the quoted price (slippage applied) next
\* to one filled at the quoted price.
C11_Witness ==
    \E b \in BotIds : \E t, u \in OpenTrades(b) :
        /\ t.entry_price > markets[t.market_id].initial_price
        /\ u.entry_price = markets[u.market_id].initial_price
        /\ t.cost * PriceScale # t.shares * t.entry_price

\* The settlement value of outcome "Yes" under a final outcome.
YesValue(m) == IF m.final_outcome = YES_WINS THEN PriceScale ELSE 0

\* C17: get_resolution_value(market_id, outcome) is None exactly when the
\* market is unknown or unresolved; on a resolved market it is 1.0 for "Yes"
\* exactly when the final outcome is YES_WINS and 0.0 otherwise, the values of
\* "Yes" and of the opposite outcome sum to 1, and a position closed at
\* resolution is closed at the value of its outcome.
C17_ResolutionValue ==
    /\ \A id \in MarketIds \cup {NumMarkets + 1}, name \in OutcomeNames :
         /\ GetResolutionValue(markets, id, name) = NONE
              <=> (id \notin MarketIds \/ ~markets[id].resolved)
         /\ (id \in MarketIds /\ markets[id].resolved) =>
              /\ GetResolutionValue(markets, id, "Yes") = YesValue(markets[id])
              /\ GetResolutionValue(markets, id, name) \in {0, PriceScale}
              /\ GetResolutionValue(markets, id, "Yes")
                 + GetResolutionValue(markets, id, "No") = PriceScale
    /\ \A b \in BotIds : \A t \in ClosedTrades(b) :
         t.exit_reason = "resolution" =>
           /\ markets[t.market_id].resolved
           /\ t.exit_price = YesValue(markets[t.market_id])

\* One market resolved YES_WINS and one NO_WINS, and positions closed at
\* resolution at 1.0 and at 0.0.
C17_Witness ==
    /\ \E m \in MarketIds : markets[m].resolved /\ markets[m].final_outcome = YES_WINS
    /\ \E m \in MarketIds : markets[m].resolved /\ markets[m].final_outcome = NO_WINS
    /\ \E b \in BotIds : \E t \in ClosedTrades(b) :
         t.exit_reason = "resolution" /\ t.exit_price = PriceScale
    /\ \E b \in BotIds : \E t \in ClosedTrades(b) :
         t.exit_reason = "resolution" /\ t.exit_price = 0

\* The cycle of the bot at idx is followed by the cycle of the next bot of
\* the tick or, after the last bot, by the end of the tick.
FailureIsolatedStep ==
    pc = "bots" =>
      \/ pc' = "bots" /\ idx' = idx + 1
      \/ pc' = "advance" /\ idx = NumBots

\* C20: a failure raised while one bot's cycle is processed is isolated: the
\* other bots of the tick are still processed, the tick is completed and the
\* run goes on.
C20_FailureIsolated == [][FailureIsolatedStep]_vars

\* The bots whose cycle of the current tick is over.
Processed ==
    IF pc = "bots" THEN 1 .. (idx - 1)
    ELSE IF pc = "advance" THEN BotIds ELSE {}

\* The unrealized pnl% of the trade at the market's current price is at or
\* above the take-profit threshold / at or below minus the stop-loss threshold.
AtTakeProfit(trade, takeProfitPct) ==
    (markets[trade.market_id].current_price - trade.entry_price) * 1000
      >= takeProfitPct * trade.entry_price

AtStopLoss(trade, stopLossPct) ==
    (markets[trade.market_id].current_price - trade.entry_price) * 1000
      <= (0 - stopLossPct) * trade.entry_price

\* C22: once a bot's cycle of a tick is over none of its open trades is in a
\* resolved market, the trades it held in markets that resolved were closed
\* in that tick at the settlement value with reason resolution, and no trade
\* that went through the maintenance phase open has an unrealized pnl% at or
\* beyond the take-profit threshold or at or below minus the stop-loss
\* threshold.
C22_MaintenanceCloses ==
    \A b \in Processed :
        /\ \A t \in OpenTrades(b) :
             /\ ~markets[t.market_id].resolved
             /\ t.entry_time < current_time =>
                  /\ ~AtTakeProfit(t, bots[b].strategy.take_profit_pct)
                  /\ ~AtStopLoss(t, bots[b].strategy.stop_loss_pct)
        /\ \A t \in ClosedTrades(b) :
             (t.exit_time = current_time /\ markets[t.market_id].resolved) =>
               /\ t.exit_reason = "resolution"
               /\ t.exit_price = YesValue(markets[t.market_id])

\* A bot whose cycle has just closed a trade at resolution, and a trade closed
\* at the stop-loss or at the take-profit threshold.
C22_Witness ==
    /\ \E b \in Processed : \E t \in ClosedTrades(b) :
         t.exit_time = current_time /\ t.exit_reason = "resolution"
    /\ \E b \in BotIds : \E t \in ClosedTrades(b) :
         t.exit_reason \in {"stop_loss", "take_profit"}

\* The type AutoTradingBot.execute_trade gives a position opened by this
\* strategy in this market at the trade's entry time.  The volume of a market
\* that starts at or above the swing volume and walks upward stays there.
TradeType(bot, trade) ==
    IF /\ markets[trade.market_id].initial_volume >= SwingMinVolume
       /\ markets[trade.market_id].walk[1] >= 0
       /\ IsSwing(bot.strategy, markets[trade.market_id].initial_volume,
                  markets[trade.market_id].end_time - trade.entry_time)
    THEN "swing" ELSE "long"

\* C23: position maintenance closes a swing trade against the strategy's
\* swing take-profit and swing stop-loss thresholds and a long trade against
\* the regular ones: no trade is left open by the maintenance phase at or
\* beyond the thresholds of its type.
C23_ThresholdsByTradeType ==
    \A b \in Processed : \A t \in OpenTrades(b) :
        (t.entry_time < current_time /\ ~markets[t.market_id].resolved) =>
          LET thresholds == Thresholds(bots[b].strategy, TradeType(bots[b], t))
          IN /\ ~AtTakeProfit(t, thresholds.take_profit)
             /\ ~AtStopLoss(t, thresholds.stop_loss)

\* The bots the final pass of _resolve_all_positions has dealt with.
Liquidated ==
    IF pc = "liquidate" THEN 1 .. (idx - 1)
    ELSE IF pc = "done" THEN BotIds ELSE {}

\* C24: the final forced-liquidation pass leaves a bot no open trade, and each
\* trade it closes, with exit reason simulation_end, is closed at the
\* settlement value (0.0 or 1.0) of its market if the market is resolved and
\* otherwise at the market's last observed current price.
C24_LiquidationPrice ==
    \A b \in Liquidated :
        /\ bots[b].open_trades = << >>
        /\ \A t \in ClosedTrades(b) :
             t.exit_reason = "simulation_end" =>
               /\ t.exit_time = current_time
               /\ t.exit_price =
                    IF markets[t.market_id].resolved
                    THEN YesValue(markets[t.market_id])
                    ELSE markets[t.market_id].current_price

\* The pass has closed a trade of an unresolved market at a current price
\* that is neither its entry price nor a settlement value.
C24_Witness ==
    \E b \in Liquidated : \E t \in ClosedTrades(b) :
        /\ t.exit_reason = "simulation_end"
        /\ ~markets[t.market_id].resolved
        /\ t.exit_price = markets[t.market_id].current_price
        /\ t.exit_price \notin {t.entry_price, 0, PriceScale}

\* A cycle of the bot at idx opens at most one position.
OneBuyStep ==
    pc = "bots" => bots'[idx].total_trades <= bots[idx].total_trades + 1

ScanBuysStep ==
    pc = "bots" =>
      LET maintained == UpdateBotPositions(bots[idx], markets, current_time)
          after == bots'[idx]
          bought == after.total_trades - bots[idx].total_trades
      IN /\ bought <= Max(0, maintained.strategy.max_positions
                             - Len(maintained.open_trades))
         /\ bought <= MaxChecks
         /\ bought <= Cardinality(ActiveMarkets(markets, current_time))
         /\ \A m \in ActiveMarkets(markets, current_time) :
              LET eval == EvaluateMarketForBot(maintained, markets[m],
                                               current_time)
              IN (eval[1] /\ ~HoldsMarket(after, m)) =>
                   \/ Len(after.open_trades) >= after.strategy.max_positions
                   \/ BuyRejected(PositionSize(after, eval[2]),
                                  after.cash_balance)

C26_ActiveUnheldMarketsOnly ==
    \A b \in BotIds :
        /\ \A t \in OpenTrades(b) \cup ClosedTrades(b) :
             /\ t.entry_time < markets[t.market_id].end_time
             /\ markets[t.market_id].resolved =>
                  t.entry_time < markets[t.market_id].resolution_time
        /\ \A t1, t2 \in OpenTrades(b) :
             t1.id # t2.id => t1.market_id # t2.market_id

\* A bot with room for a position has gone through a scan holding a trade in
\* a market that still passes its filters, and a bot holds open trades in two
\* markets.
C26_Witness ==
    /\ \E b \in Processed : \E t \in OpenTrades(b) :
         /\ t.entry_time < current_time
         /\ Len(bots[b].open_trades) < bots[b].strategy.max_positions
         /\ EvaluateMarketForBot(bots[b], markets[t.market_id], current_time)[1]
    /\ \E b \in BotIds : \E t1, t2 \in OpenTrades(b) :
         t1.market_id # t2.market_id

\* C27: in every reachable state the number of a bot's open trades is at most
\* its strategy's max_positions.
C27_PositionCap ==
    \A b \in BotIds :
        Len(bots[b].open_trades) <= bots[b].strategy.max_positions

\* A bot at its cap has gone through a scan in which an active market it does
\* not hold passed its filters.
C27_Witness ==
    \E b \in Processed :
        /\ Len(bots[b].open_trades) = bots[b].strategy.max_positions
        /\ \E m \in ActiveMarkets(markets, current_time) :
             /\ ~HoldsMarket(bots[b], m)
             /\ EvaluateMarketForBot(bots[b], markets[m], current_time)[1]

\* The market is, at this time, within every entry filter of the strategy.
WithinFilters(strategy, market, now) ==
    LET price == market.current_price
        hours == market.end_time - now
    IN /\ strategy.min_price * 10 <= price /\ price <= strategy.max_price * 10
       /\ market.current_volume >= strategy.min_volume
       /\ market.current_liquidity >= strategy.min_liquidity
       /\ strategy.min_days * 24 <= hours * 100
       /\ hours * 100 <= strategy.max_days * 24
       /\ ComputeG(price, hours) # NONE
       /\ ComputeG(price, hours) >= strategy.min_g_score
       /\ ExpectedRoi(price) >= strategy.min_expected_roi
       /\ CalculateConfidence(price, market.current_volume,
                              market.current_liquidity, hours,
                              ComputeG(price, hours)) >= strategy.min_confidence

\* The trades the cycle of the bot at idx opens are in markets within every
\* filter of its strategy at that tick.
FilteredBuyStep ==
    pc = "bots" =>
      \A i \in 1 .. Len(bots'[idx].open_trades) :
          LET t == bots'[idx].open_trades[i]
          IN t.id > bots[idx].trade_counter =>
               /\ t.entry_time = current_time
               /\ WithinFilters(bots[idx].strategy, markets[t.market_id],
                                current_time)

\* C28: every trade a bot opens is opened on a market that, at the tick of
\* the buy, has price within [min_price, max_price], volume >= min_volume,
\* liquidity >= min_liquidity, resolution days within [min_days, max_days],
\* growth score >= min_g_score, expected ROI >= min_expected_roi and
\* confidence >= min_confidence of the bot's strategy.
C28_BuysWithinFilters == [][FilteredBuyStep]_vars

\* A bot has just bought into one market and turned down another one that was
\* active, unheld and outside its filters.
C28_Witness ==
    \E b \in Processed :
        /\ \E t \in OpenTrades(b) : t.entry_time = current_time
        /\ \E m \in ActiveMarkets(markets, current_time) :
             /\ ~HoldsMarket(bots[b], m)
             /\ ~WithinFilters(bots[b].strategy, markets[m], current_time)

\* The sized position of a buy of this market by the bot would be turned down
\* by the size test of _execute_buy.
SizeRejected(bot, market, now) ==
    LET eval == EvaluateMarketForBot(bot, market, now)
    IN /\ eval[1]
       /\ BuyRejected(PositionSize(bot, eval[2]), bot.cash_balance)

\* A cycle of the bot at idx in which every market that passes the filters is
\* turned down at the size test leaves the bot as its maintenance phase left
\* it, and the loop goes on to the next bot or to the end of the tick.
RejectedBuyStep ==
    pc = "bots" =>
      LET maintained == UpdateBotPositions(bots[idx], markets, current_time)
      IN (\A m \in ActiveMarkets(markets, current_time) :
              (~HoldsMarket(maintained, m)
               /\ EvaluateMarketForBot(maintained, markets[m], current_time)[1])
                => SizeRejected(maintained, markets[m], current_time))
           => /\ bots'[idx].cash_balance = maintained.cash_balance
              /\ bots'[idx].open_trades = maintained.open_trades
              /\ bots'[idx].closed_trades = maintained.closed_trades
              /\ bots'[idx].total_trades = maintained.total_trades
              /\ bots'[idx].trade_counter = maintained.trade_counter
              /\ \/ pc' = "bots" /\ idx' = idx + 1
                 \/ pc' = "advance" /\ idx = NumBots

\* C29: a buy attempt whose sized position is below the floor of $5 or above
\* the bot's cash is dropped without an error: the bot's cash, open trades,
\* closed trades, total_trades and trade counter are as before the attempt
\* and the tick goes on.
C29_RejectedBuyIsSilent == [][RejectedBuyStep]_vars

\* Both bots have gone through a scan untouched although an active market
\* passed their filters: the position of one was sized below the floor, the
\* position of the other above its cash.
C29_Witness ==
    /\ pc = "advance"
    /\ \E b \in BotIds : \E m \in ActiveMarkets(markets, current_time) :
         /\ bots[b].total_trades = 0
         /\ EvaluateMarketForBot(bots[b], markets[m], current_time)[1]
         /\ PositionSize(bots[b],
                         EvaluateMarketForBot(bots[b], markets[m],
                                              current_time)[2])
              < MinPositionValue
    /\ \E b \in BotIds : \E m \in ActiveMarkets(markets, current_time) :
         /\ bots[b].total_trades = 0
         /\ EvaluateMarketForBot(bots[b], markets[m], current_time)[1]
         /\ PositionSize(bots[b],
                         EvaluateMarketForBot(bots[b], markets[m],
                                              current_time)[2])
              > bots[b].cash_balance

\* The time of the last simulate_price_movement call made on market m: the
\* current tick once the market loop has passed it, the tick before until
\* then and, after the loop, the last tick of the run.
LastAdvance(m) ==
    IF pc = "markets" /\ m >= idx THEN current_time - TimeStepHours
    ELSE IF pc \in {"liquidate", "done"} THEN current_time - TimeStepHours
    ELSE current_time

\* The first tick at or after the time (ticks start at start_time and are
\* TimeStepHours apart).
FirstTickFrom(time) ==
    start_time
    + ((time - start_time + TimeStepHours - 1) \div TimeStepHours) * TimeStepHours

\* C30: a market becomes resolved in the first simulate_price_movement call
\* whose current time is at or after its end time and in no earlier call:
\* after the call at time t it is resolved exactly when its end time is <= t,
\* its resolution time is that first call's time, and resolved never reverts.
C30_ResolutionTiming ==
    \A m \in MarketIds :
        /\ markets[m].resolved <=> markets[m].end_time <= LastAdvance(m)
        /\ markets[m].resolved =>
             /\ markets[m].resolution_time = FirstTickFrom(markets[m].end_time)
             /\ markets[m].final_outcome \in {YES_WINS, NO_WINS}
        /\ ~markets[m].resolved =>
             /\ markets[m].resolution_time = NONE
             /\ markets[m].final_outcome = UNRESOLVED

\* The market loop of a tick has just resolved one market, whose end time lay
\* between the previous tick and this one, and left another, ending later,
\* unresolved.
C30_Witness ==
    /\ pc = "bots"
    /\ \E m \in MarketIds :
         /\ markets[m].resolved /\ markets[m].resolution_time = current_time
         /\ markets[m].end_time > current_time - TimeStepHours
    /\ \E m \in MarketIds :
         ~markets[m].resolved /\ markets[m].end_time > current_time

\* simulation_days * 24 / time_step_hours
TicksExpected == (SimulationDays * 24) \div TimeStepHours

\* The loop is running before the end time only; once it is left the time is
\* TicksExpected steps after the start, at or after the end time, and every
\* market has one price sample per tick it was advanced in before it resolved
\* or the run ended.
TicksCounted ==
    /\ pc \in {"markets", "bots", "advance"} => current_time < end_time
    /\ pc \in {"liquidate", "done"} =>
         /\ current_time = start_time + TicksExpected * TimeStepHours
         /\ current_time >= end_time
         /\ \A m \in MarketIds :
              markets[m].price_history.len
                = 1 + Min(FirstTickFrom(markets[m].end_time) - start_time,
                          TicksExpected * TimeStepHours) \div TimeStepHours

\* C31: the simulation loop terminates: from the start time it executes
\* exactly simulation_days * 24 / 4 ticks of 4 hours, stops as soon as
\* current_time >= end_time, then runs the liquidation pass once and returns.
C31_LoopTerminates ==
    /\ []TicksCounted
    /\ [][pc # "done"]_vars
    /\ <>(pc = "done")

\* The run has returned after its last tick and the liquidation pass, with a
\* market that was advanced in every tick.
C31_Witness ==
    /\ pc = "done"
    /\ current_time = end_time
    /\ \E m \in MarketIds :
         ~markets[m].resolved /\ markets[m].price_history.len = 1 + TicksExpected
    /\ \E b \in BotIds : \E t \in ClosedTrades(b) : t.exit_reason = "simulation_end"

\* Every closed trade carries its exit, no closed trade is in the open set,
\* every open trade is still without an exit, and _close_trade on an id that
\* is not open (a closed trade's id, or one never issued) returns the bot as
\* it was.
ClosedIsTerminal ==
    \A b \in BotIds :
        /\ \A t \in ClosedTrades(b) :
             /\ t.status = "closed"
             /\ t.exit_price # NONE
             /\ t.exit_reason \in ExitReasons
             /\ \A o \in OpenTrades(b) : o.id # t.id
        /\ \A o \in OpenTrades(b) :
             o.status = "open" /\ o.exit_price = NONE /\ o.exit_reason = ""
        /\ \A id \in 1 .. (bots[b].trade_counter + 1) :
             OpenIndex(bots[b], id) = 0 =>
               \A price \in {MinPrice, PriceScale} : \A reason \in ExitReasons :
                   CloseTrade(bots[b], id, price, reason, current_time) = bots[b]

\* closed_trades keeps every record it had, unchanged and in place.
ClosedOnlyGrows ==
    \A b \in BotIds :
        /\ Len(bots[b].closed_trades') >= Len(bots[b].closed_trades)
        /\ SubSeq(bots[b].closed_trades', 1, Len(bots[b].closed_trades))
             = bots[b].closed_trades

\* C32: a trade goes from open to closed and closed is terminal: a closed
\* trade has its exit_price and exit_reason set and they never change, it is
\* never in the bot's open set again, closing an id that is not open changes
\* nothing, and closed_trades only grows by appending.
C32_TradeLifecycle ==
    /\ []ClosedIsTerminal
    /\ [][ClosedOnlyGrows]_vars

\* A bot closed a trade in one tick and, holding that record, closed another
\* in a later tick.
C32_Witness ==
    \E b \in BotIds :
        /\ Len(bots[b].closed_trades) >= 2
        /\ bots[b].closed_trades[1].exit_time < bots[b].closed_trades[2].exit_time
        /\ bots[b].closed_trades[1].id # bots[b].closed_trades[2].id

\* ============================================================== ReportSpec
\* The per-type statistics of _compile_results and what ResultsAnalyzer
\* derives from them: call = [op, bots, order], ret the results and then the
\* report. Returns are in thousandths of a percent in this part, so that the
\* second decimal is not the last digit: two decimals are the multiples of 10.
MaxReportBots == 3
ReportTypes == {"scalper", "balanced", "value"}
\* No mean and no deviation of up to MaxReportBots + 1 of these lies exactly
\* halfway between two multiples of 10.
ReturnDraws == {0 - 3, 3, 1231, 1234, 2003}

RECURSIVE Factorial(_)
Factorial(n) == IF n <= 1 THEN 1 ELSE n * Factorial(n - 1)

\* round(num / den, 2) for den > 0: the nearest multiple of 10
Round2(num, den) == 10 * ((2 * num + 10 * den) \div (20 * den))

\* n * sum(x^2) - sum(x)^2: n^2 times the population variance np.std uses
VarianceTimesN2(returns) ==
    Len(returns) * SumOver([k \in 1 .. Len(returns) |-> returns[k] * returns[k]], 1)
    - SumOver(returns, 1) * SumOver(returns, 1)

\* round(np.std(returns), 2): the multiple of 10 nearest to sqrt(v) / n
Round2Std(returns) ==
    LET n == Len(returns)
        v == VarianceTimesN2(returns)
    IN 10 * (CHOOSE j \in 0 .. 400 :
                /\ v < ((10 * j + 5) * n) * ((10 * j + 5) * n)
                /\ j > 0 => v >= ((10 * j - 5) * n) * ((10 * j - 5) * n))

\* [b.total_return_pct for b in type_bots]
TypeReturns(botStates, type) ==
    LET ks == {k \in 1 .. Len(botStates) : botStates[k].strategy_type = type}
        RECURSIVE Collect(_)
        Collect(k) ==
            IF k > Len(botStates) THEN << >>
            ELSE IF k \in ks THEN <<botStates[k].total_return_pct>> \o Collect(k + 1)
            ELSE Collect(k + 1)
    IN Collect(1)

\* strategy_perf[strategy_type] = {...}: the rounded statistics of one type
TypePerformance(returns) ==
    [count |-> Len(returns),
     avg_return_pct |-> Round2(SumOver(returns, 1), Len(returns)),
     std_return_pct |-> Round2Std(returns)]

\* The same statistics with no rounding, scaled so that they are integers:
\* the mean times MaxReportBots!, the variance times its square.
UnroundedPerformance(returns) ==
    LET f == Factorial(MaxReportBots) \div Len(returns) IN
    [count |-> Len(returns),
     avg_return_pct |-> SumOver(returns, 1) * f,
     std_return_pct |-> VarianceTimesN2(returns) * f * f]

\* The strategy_performance dict as its items in insertion order, the order
\* in which the set of strategy types is iterated.
StrategyPerformance(botStates, order) ==
    [k \in 1 .. Len(order) |->
        [name |-> order[k],
         perf |-> TypePerformance(TypeReturns(botStates, order[k]))]]

\* sorted(items, key=lambda x: x[1][key], reverse=True)
RECURSIVE SortedItems(_, _, _, _)
SortedItems(items, key, k, sorted) ==
    IF k > Len(items) THEN sorted
    ELSE LET ahead == {j \in 1 .. Len(sorted) :
                         sorted[j].perf[key] >= items[k].perf[key]}
         IN SortedItems(items, key, k + 1,
                        SubSeq(sorted, 1, Cardinality(ahead)) \o <<items[k]>>
                        \o SubSeq(sorted, Cardinality(ahead) + 1, Len(sorted)))

\* max(items, key=...) and min(items, key=...): the first item that no other
\* beats.
MaxItem(items, key) ==
    items[CHOOSE k \in 1 .. Len(items) :
            /\ \A j \in 1 .. Len(items) : items[j].perf[key] <= items[k].perf[key]
            /\ \A j \in 1 .. (k - 1) : items[j].perf[key] < items[k].perf[key]]

MinItem(items, key) ==
    items[CHOOSE k \in 1 .. Len(items) :
            /\ \A j \in 1 .. Len(items) : items[j].perf[key] >= items[k].perf[key]
            /\ \A j \in 1 .. (k - 1) : items[j].perf[key] > items[k].perf[key]]

\* [(k, v) for k, v in self.strategy_perf.items() if v['avg_return_pct'] > 0]
ProfitableStrategies(items) ==
    LET RECURSIVE Keep(_)
        Keep(k) ==
            IF k > Len(items) THEN << >>
            ELSE IF items[k].perf.avg_return_pct > 0
            THEN <<items[k]>> \o Keep(k + 1)
            ELSE Keep(k + 1)
    IN Keep(1)

NamesOf(items) == [k \in 1 .. Len(items) |-> items[k].name]

\* _generate_text_report's strategy ranking and _generate_recommendations'
\* two choices, "" where the report has no such line.
Report(items) ==
    [sorted_strategies |-> NamesOf(SortedItems(items, "avg_return_pct", 1, << >>)),
     best_strategy |-> IF items = << >> THEN ""
                       ELSE MaxItem(items, "avg_return_pct").name,
     most_consistent |-> IF ProfitableStrategies(items) = << >> THEN ""
                         ELSE MinItem(ProfitableStrategies(items),
                                      "std_return_pct").name]

ReportInit ==
    /\ Idle
    /\ \E n \in 0 .. MaxReportBots :
         \E types \in [1 .. n -> ReportTypes], returns \in [1 .. n -> ReturnDraws] :
           \E order \in Orders({types[k] : k \in 1 .. n}) :
             call = [op |-> "compile_results",
                     bots |-> [id \in 1 .. n |->
                                 [id |-> id,
                                  strategy_type |-> types[id],
                                  total_return_pct |-> returns[id]]],
                     order |-> order]
    /\ ret = NONE
    /\ rng = NONE

\* _compile_results: strategy_performance and the bots sorted by return
CompilePerformance ==
    /\ pc = "call" /\ call.op = "compile_results"
    /\ ret' = [strategy_performance |->
                   StrategyPerformance(call.bots, call.order),
               sorted_results |-> SortedByReturn(call.bots, 1, << >>)]
    /\ pc' = "compiled"
    /\ UNCHANGED <<markets, bots, current_time, idx, call, rng>>

\* ResultsAnalyzer(results).generate_full_report()
GenerateFullReport ==
    /\ pc = "compiled"
    /\ ret' = [strategy_performance |-> ret.strategy_performance,
               sorted_results |-> ret.sorted_results,
               report |-> Report(ret.strategy_performance)]
    /\ pc' = "returned"
    /\ UNCHANGED <<markets, bots, current_time, idx, call, rng>>

ReportNext == CompilePerformance \/ GenerateFullReport

ReportSpec == ReportInit /\ [][ReportNext]_vars

\* The report drawn from the statistics as they are before any rounding.
UnroundedReport ==
    Report([k \in 1 .. Len(call.order) |->
              [name |-> call.order[k],
               perf |-> UnroundedPerformance(TypeReturns(call.bots, call.order[k]))]])

\* C33: rounding to 2 decimals is for display only: the stored per-type
\* statistics are the unrounded ones, the bots are ranked by their unrounded
\* returns, and the ranking of the types by average return, the best type and
\* the most consistent type are those the unrounded values give.
C33_RoundingIsCosmetic ==
    pc = "returned" =>
      /\ \A k \in 1 .. Len(ret.strategy_performance) :
           LET perf == ret.strategy_performance[k].perf
               returns == TypeReturns(call.bots, call.order[k])
           IN perf.avg_return_pct * perf.count = SumOver(returns, 1)
      /\ \A k \in 1 .. (Len(ret.sorted_results) - 1) :
           ret.sorted_results[k].total_return_pct
             >= ret.sorted_results[k + 1].total_return_pct
      /\ ret.report = UnroundedReport

\* ================================================================ LiveSpec
\* LivePaperTradingSystem.run: markets holds market_cache (the last price per
\* slug, NONE where the slug was never fetched), bots the LiveBotStates,
\* current_time the cycles the loop has run, call = [scan_count,
\* total_api_calls] and ret the list the last fetch_live_markets returned.
MaxCycles == 2
LiveSlugs == {"a", "b"}
\* The volume, liquidity and hours to the end date every fetched market carries.
LiveFeed == [volume |-> 60000, liquidity |-> 6000, hours |-> 168]

FeedMarket(slug, price) == [dict |-> TRUE, slug |-> slug, price |-> price]

\* What requests.get(...) and response.json() can do for one ordering: raise,
\* answer with an error status, answer with a body that is not JSON, answer
\* with a JSON object whose keys extend the list, answer with a market list.
Responses ==
    {[kind |-> k, json |-> << >>] : k \in {"raise", "not_ok", "bad_json"}}
    \cup {[kind |-> "ok", json |-> <<[dict |-> FALSE, slug |-> "error", price |-> 0]>>]}
    \cup {[kind |-> "ok", json |-> j] :
            j \in {<< >>, <<FeedMarket("a", 3000)>>, <<FeedMarket("a", 5000)>>,
                   <<FeedMarket("a", 8000)>>, <<FeedMarket("b", 5000)>>}}

\* The loop over the orderings: all_markets and total_api_calls.
RECURSIVE FetchOrderings(_, _, _, _)
FetchOrderings(responses, k, allMarkets, apiCalls) ==
    IF k > Len(responses) THEN [all_markets |-> allMarkets, api_calls |-> apiCalls]
    ELSE IF responses[k].kind = "ok"
    THEN FetchOrderings(responses, k + 1, allMarkets \o responses[k].json, apiCalls + 1)
    ELSE FetchOrderings(responses, k + 1, allMarkets, apiCalls)

\* The duplicate removal: m.get on an entry that is not a dict raises, the
\* outer handler returns [] and the cache keeps what was stored before.
RECURSIVE RemoveDuplicates(_, _, _, _)
RemoveDuplicates(allMarkets, k, unique, cache) ==
    IF k > Len(allMarkets) THEN [markets |-> unique, cache |-> cache]
    ELSE IF ~allMarkets[k].dict THEN [markets |-> << >>, cache |-> cache]
    ELSE IF \E j \in 1 .. Len(unique) : unique[j].slug = allMarkets[k].slug
    THEN RemoveDuplicates(allMarkets, k + 1, unique, cache)
    ELSE RemoveDuplicates(allMarkets, k + 1, Append(unique, allMarkets[k]),
                          [cache EXCEPT ![allMarkets[k].slug] = allMarkets[k].price])

\* fetch_live_markets()
FetchLiveMarkets(responses, cache, apiCalls) ==
    LET fetched == FetchOrderings(responses, 1, << >>, apiCalls)
        unique == RemoveDuplicates(fetched.all_markets, 1, << >>, cache)
    IN [markets |-> unique.markets, cache |-> unique.cache,
        api_calls |-> fetched.api_calls]

\* LiveBotState(bot_id, strategy, config, initial_capital, current_cash)
NewLiveBot(id, config) ==
    [bot_id |-> id,
     config |-> config,
     initial_capital |-> config.initial_capital,
     current_cash |-> config.initial_capital,
     open_trades |-> << >>,
     closed_trades |-> << >>,
     total_trades |-> 0,
     winning_trades |-> 0,
     losing_trades |-> 0,
     realized_pnl |-> 0,
     value_history |-> 0]

\* close_trade(bot, trade_id, exit_price, reason) of the live system, for the
\* open trade at index i
LiveCloseTrade(bot, i, exitPrice, reason) ==
    LET trade == bot.open_trades[i]
        actualExit == (exitPrice * 98) \div 100
        proceeds == PositionValue(trade.shares, actualExit)
        pnl == proceeds - trade.cost
    IN [bot EXCEPT !.open_trades = RemoveAt(@, i),
                   !.closed_trades =
                       Append(@, [trade_id |-> trade.trade_id,
                                  market_id |-> trade.market_id,
                                  exit_price |-> actualExit,
                                  pnl |-> pnl,
                                  exit_reason |-> reason]),
                   !.current_cash = @ + proceeds,
                   !.realized_pnl = @ + pnl,
                   !.winning_trades = IF pnl >= 0 THEN @ + 1 ELSE @,
                   !.losing_trades = IF pnl >= 0 THEN @ ELSE @ + 1]

\* update_positions(bot): the price of each open trade is refreshed from the
\* cache, then the trades at stop-loss or take-profit are closed, from the
\* open trade at index i on.
RECURSIVE LiveUpdatePositions(_, _, _)
LiveUpdatePositions(bot, cache, i) ==
    IF i > Len(bot.open_trades) THEN bot
    ELSE
      LET trade == bot.open_trades[i]
          currentPrice == IF cache[trade.market_id] # NONE
                          THEN cache[trade.market_id] ELSE trade.current_price
          diff == currentPrice - trade.entry_price
          seen == [bot EXCEPT !.open_trades[i].current_price = currentPrice]
      IN IF diff * 1000 <= 0 - bot.config.stop_loss_pct * trade.entry_price
         THEN LiveUpdatePositions(
                  LiveCloseTrade(seen, i, currentPrice, "stop_loss"), cache, i)
         ELSE IF diff * 1000 >= bot.config.take_profit_pct * trade.entry_price
         THEN LiveUpdatePositions(
                  LiveCloseTrade(seen, i, currentPrice, "take_profit"), cache, i)
         ELSE LiveUpdatePositions(seen, cache, i + 1)

\* The position value evaluate_market_for_bot sizes.
LivePositionValue(config, cash, confidence) ==
    IF config.test_trade_enabled /\ confidence < config.high_confidence
    THEN Min(config.test_trade_size, (cash * 5) \div 100)
    ELSE Min(config.max_position_size, (cash * config.max_position_pct) \div 1000)

\* execute_buy(bot, market_id, outcome, price, shares, question)
LiveExecuteBuy(bot, slug, price, shares) ==
    LET cost == PositionValue(shares, price) IN
    [bot EXCEPT !.open_trades =
                    Append(@, [trade_id |-> Len(bot.closed_trades)
                                            + Len(bot.open_trades) + 1,
                               market_id |-> slug,
                               entry_price |-> price,
                               current_price |-> price,
                               shares |-> shares,
                               cost |-> cost]),
                !.current_cash = @ - cost,
                !.total_trades = @ + 1]

\* The loop over markets_to_check of run_cycle, from the market at order[k].
RECURSIVE LiveScan(_, _, _, _, _)
LiveScan(bot, fetched, order, k, slip) ==
    IF k > Len(order) THEN bot
    ELSE IF Len(bot.open_trades) >= bot.config.max_positions THEN bot
    ELSE
      LET market == fetched[order[k]]
          held == \E i \in 1 .. Len(bot.open_trades) :
                      bot.open_trades[i].market_id = market.slug
          eval == LiveEvaluateMarketForBot(bot.config, bot.current_cash,
                                           market.price, LiveFeed.volume,
                                           LiveFeed.liquidity, LiveFeed.hours)
          actualPrice == FillPrice(market.price, slip)
          shares == SharesBought(
                        LivePositionValue(bot.config, bot.current_cash, eval[2]),
                        actualPrice)
      IN IF ~held /\ eval[1]
         THEN LiveScan(LiveExecuteBuy(bot, market.slug, actualPrice, shares),
                       fetched, order, k + 1, slip)
         ELSE LiveScan(bot, fetched, order, k + 1, slip)

\* The body of run_cycle's loop over the bots, for one bot.
LiveBotCycle(bot, fetched, cache, order, slip) ==
    LET updated == LiveUpdatePositions(bot, cache, 1)
        scanned == LiveScan(updated, SubSeq(fetched, 1, Min(MaxChecks, Len(fetched))),
                            order, 1, slip)
    IN [scanned EXCEPT !.value_history = @ + 1]

\* Mutant: run_cycle goes on to the bots whatever the fetch returned.
RunCycleBotsUnguarded(botStates, fetched, cache, order, slip) ==
    [b \in DOMAIN botStates |-> LiveBotCycle(botStates[b], fetched, cache, order, slip)]

\* run_cycle() after the fetch: nothing when no market came back, else every
\* bot's cycle.
RunCycleBots(botStates, fetched, cache, order, slip) ==
    IF fetched = << >> THEN botStates
    ELSE [b \in DOMAIN botStates |->
            LiveBotCycle(botStates[b], fetched, cache, order, slip)]

LiveInit ==
    /\ markets = [slug \in LiveSlugs |-> NONE]
    /\ bots = [b \in BotIds |->
                 NewLiveBot(b, IF b = 1 THEN OpenStrategy
                               ELSE [OpenStrategy EXCEPT !.max_positions = 1])]
    /\ current_time = 0
    /\ pc = "running"
    /\ idx = 1
    /\ call = [scan_count |-> 0, total_api_calls |-> 0]
    /\ ret = << >>
    /\ rng = NONE

\* One pass of run()'s while loop: run_cycle() and cycle_count += 1.
RunCycle ==
    /\ pc = "running" /\ current_time < MaxCycles
    /\ \E responses \in [1 .. 3 -> Responses] :
         LET fetched == FetchLiveMarkets(responses, markets, call.total_api_calls) IN
         \E order \in Orders(1 .. Len(fetched.markets)) :
           \E slip \in SlipDraws(OpenStrategy) :
             /\ markets' = fetched.cache
             /\ call' = [scan_count |-> call.scan_count + 1,
                         total_api_calls |-> fetched.api_calls]
             /\ ret' = fetched.markets
             /\ bots' = RunCycleBots(bots, fetched.markets, fetched.cache, order, slip)
    /\ current_time' = current_time + 1
    /\ UNCHANGED <<pc, idx, rng>>

RECURSIVE LiveCloseAll(_)
LiveCloseAll(bot) ==
    IF bot.open_trades = << >> THEN bot
    ELSE LiveCloseAll(LiveCloseTrade(bot, 1, bot.open_trades[1].current_price,
                                     "session_end"))

\* The end of run(): the loop is left at the end time and every remaining
\* position is closed.
SessionEnd ==
    /\ pc = "running" /\ current_time >= MaxCycles
    /\ bots' = [b \in BotIds |-> LiveCloseAll(bots[b])]
    /\ pc' = "done"
    /\ UNCHANGED <<markets, current_time, idx, call, ret, rng>>

LiveNext == RunCycle \/ SessionEnd

LiveSpec == LiveInit /\ [][LiveNext]_vars

\* A run_cycle step whose fetch came back empty.
SkippedCycle == call'.scan_count = call.scan_count + 1 /\ ret' = << >>

SkippedCycleStep ==
    SkippedCycle =>
      /\ bots' = bots
      /\ pc' = "running"
      /\ current_time' = current_time + 1

\* C34: a failed or empty market fetch makes run_cycle skip the cycle: no
\* bot's cash, open trades, closed trades or counters change, nothing is
\* raised, and the run goes on with the next pass of its loop.
C34_FailedFetchSkipsCycle == [][SkippedCycleStep]_vars

\* A cycle was skipped, after a fetch that failed on its way, while a bot held
\* a trade whose cached price had moved past its stop-loss; the bot still
\* holds the trade and the loop is still running.
C34_Witness ==
    /\ pc = "running" /\ ret = << >> /\ call.scan_count >= 2
    /\ \E b \in BotIds : \E i \in 1 .. Len(bots[b].open_trades) :
         LET trade == bots[b].open_trades[i] IN
         /\ markets[trade.market_id] # NONE
         /\ (markets[trade.market_id] - trade.entry_price) * 1000
              <= 0 - bots[b].config.stop_loss_pct * trade.entry_price

\* C35: for every bot in every state of a run, cash_balance plus the costs
\* of its open trades is initial_capital plus total_pnl, total_pnl is the sum
\* of the pnl of its closed trades, and once the final liquidation has run
\* cash_balance is initial_capital plus total_pnl.
C35_AccountingIdentity ==
    \A b \in BotIds :
        /\ bots[b].cash_balance + OpenCost(bots[b])
             = bots[b].initial_capital + bots[b].total_pnl
        /\ bots[b].total_pnl = ClosedPnl(bots[b])
        /\ pc = "done" =>
             bots[b].cash_balance = bots[b].initial_capital + bots[b].total_pnl

\* A bot holds an open trade next to a trade it closed at a gain after the
\* fee, and a bot has closed a trade at a loss.
C35_Witness ==
    /\ \E b \in BotIds :
         /\ bots[b].open_trades # << >>
         /\ \E t \in ClosedTrades(b) : t.pnl > 0 /\ t.exit_price > t.entry_price
    /\ \E b \in BotIds : \E t \in ClosedTrades(b) : t.pnl < 0

\* C36: for every bot in every state of a run, total_trades is the number of
\* its open trades plus the number of its closed trades, winning_trades plus
\* losing_trades is the number of its closed trades, and the winning trades
\* are exactly the closed trades whose pnl after the fee is above zero.
C36_CounterConsistency ==
    \A b \in BotIds :
        /\ bots[b].total_trades
             = Len(bots[b].open_trades) + Len(bots[b].closed_trades)
        /\ bots[b].winning_trades + bots[b].losing_trades
             = Len(bots[b].closed_trades)
        /\ bots[b].winning_trades
             = Cardinality({i \in 1 .. Len(bots[b].closed_trades) :
                              bots[b].closed_trades[i].pnl > 0})
        /\ \A t \in ClosedTrades(b) :
             t.pnl = PositionValue(t.shares, t.exit_price)
                     - ExitFee(PositionValue(t.shares, t.exit_price),
                               t.exit_price, t.entry_price)
                     - t.cost

\* A bot has winning and losing trades, and a trade closed with a pnl of
\* exactly zero is among the losing ones.
C36_Witness ==
    /\ \E b \in BotIds : bots[b].winning_trades >= 1 /\ bots[b].losing_trades >= 1
    /\ \E b \in BotIds :
         /\ bots[b].losing_trades >= 1
         /\ \E t \in ClosedTrades(b) : t.pnl = 0

\* ============================================================== ThreadSpec
\* AutoTradingBot.start / stop called from the UI thread and the _run_loop
\* threads they leave behind: bots holds the bot's _running flag and the
\* number of the thread in _thread (0 before the first start), pc[t] is where
\* loop thread t stands, idx[t] the seconds it still has to wait, and
\* current_time counts the calls the UI thread has made.
MaxThreads == 2
MaxUiCalls == 4
ScanIntervalSeconds == 2

LoopThreads == 1 .. MaxThreads

ThreadInit ==
    /\ markets = << >>
    /\ bots = [_running |-> FALSE, _thread |-> 0]
    /\ current_time = 0
    /\ pc = [t \in LoopThreads |-> "unstarted"]
    /\ idx = [t \in LoopThreads |-> 0]
    /\ call = NONE /\ ret = NONE /\ rng = NONE

\* start() on a bot that is not running: the flag is set and a new thread
\* is started on _run_loop.
Start ==
    /\ current_time < MaxUiCalls
    /\ ~bots._running /\ bots._thread < MaxThreads
    /\ bots' = [_running |-> TRUE, _thread |-> bots._thread + 1]
    /\ pc' = [pc EXCEPT ![bots._thread + 1] = "while"]
    /\ current_time' = current_time + 1
    /\ UNCHANGED <<markets, idx, call, ret, rng>>

\* start() on a running bot returns at once.
StartWhileRunning ==
    /\ current_time < MaxUiCalls
    /\ bots._running
    /\ current_time' = current_time + 1
    /\ UNCHANGED <<markets, bots, pc, idx, call, ret, rng>>

\* stop(): the flag is cleared; the thread is neither joined nor told apart.
Stop ==
    /\ current_time < MaxUiCalls
    /\ bots' = [bots EXCEPT !._running = FALSE]
    /\ current_time' = current_time + 1
    /\ UNCHANGED <<markets, pc, idx, call, ret, rng>>

\* while self._running:
LoopTest(t) ==
    /\ pc[t] = "while"
    /\ pc' = [pc EXCEPT ![t] = IF bots._running THEN "body" ELSE "exited"]
    /\ UNCHANGED <<markets, bots, current_time, idx, call, ret, rng>>

\* The scan, the trades and the position update of one pass: they end at the
\* wait, or in the handler's sleep when one of them raised.
LoopBody(t) ==
    /\ pc[t] = "body"
    /\ \/ /\ pc' = [pc EXCEPT ![t] = "wait"]
          /\ idx' = [idx EXCEPT ![t] = ScanIntervalSeconds]
       \/ /\ pc' = [pc EXCEPT ![t] = "error"]
          /\ UNCHANGED idx
    /\ UNCHANGED <<markets, bots, current_time, call, ret, rng>>

\* One turn of the wait: it is left when the flag is down or the interval has
\* passed, else another second is slept.
WaitTick(t) ==
    /\ pc[t] = "wait"
    /\ IF idx[t] = 0 \/ ~bots._running
       THEN pc' = [pc EXCEPT ![t] = "while"] /\ idx' = [idx EXCEPT ![t] = 0]
       ELSE pc' = pc /\ idx' = [idx EXCEPT ![t] = idx[t] - 1]
    /\ UNCHANGED <<markets, bots, current_time, call, ret, rng>>

\* time.sleep(10) of the exception handler is over.
ErrorSleep(t) ==
    /\ pc[t] = "error"
    /\ pc' = [pc EXCEPT ![t] = "while"]
    /\ UNCHANGED <<markets, bots, current_time, idx, call, ret, rng>>

ThreadNext ==
    \/ Start \/ StartWhileRunning \/ Stop
    \/ \E t \in LoopThreads : LoopTest(t) \/ LoopBody(t) \/ WaitTick(t) \/ ErrorSleep(t)

ThreadSpec == ThreadInit /\ [][ThreadNext]_vars

\* The loop threads that were started and have not left _run_loop.
ActiveLoops == {t \in LoopThreads : pc[t] \in {"while", "body", "wait", "error"}}

\* C37: whatever the order and timing of the start() and stop() calls, at
\* most one loop thread is active at a time: start() on a running bot starts
\* none, and a loop that stop() has stopped does not run on next to the loop
\* a later start() creates.
C37_AtMostOneLoop == Cardinality(ActiveLoops) <= 1

\* ================================================================ SellSpec
\* AutoTradingBot.update_positions on the loop thread next to sell_position
\* on the UI thread, with no lock between them. markets holds the BotTrade
\* objects (quote is the price the next lookup finds for the trade), bots the
\* bot's balance, open_trades keys, closed_trades and counters, pc and call
\* the position and the local variables of the two threads, and current_time
\* counts the sell_position calls.
MaxTrades == 2
MaxSells == 2
TradeIds == 1 .. MaxTrades
\* The entry price and the shares (in 1/100) of every open trade.
SellTrade == [entry_price |-> 5000, shares |-> 100]
QuoteDraws == {3000, 5000, 8000}
SellThreads == {"loop", "ui"}

SellInit ==
    /\ \E quotes \in [TradeIds -> QuoteDraws] :
         markets = [t \in TradeIds |->
                      [entry_price |-> SellTrade.entry_price,
                       current_price |-> SellTrade.entry_price,
                       exit_price |-> NONE, status |-> "open",
                       quote |-> quotes[t]]]
    /\ bots = [cash_balance |-> InitialCapital
                                - MaxTrades * PositionValue(SellTrade.shares, SellTrade.entry_price),
               open_trades |-> TradeIds,
               closed_trades |-> << >>,
               total_pnl |-> 0,
               winning_trades |-> 0,
               losing_trades |-> 0]
    /\ current_time = 0
    /\ pc = [th \in SellThreads |-> "idle"]
    /\ call = [th \in SellThreads |-> [snapshot |-> << >>, k |-> 1, trade |-> 0,
                                       exit_price |-> 0]]
    /\ idx = 1 /\ ret = NONE /\ rng = NONE

\* The keys of a dict in insertion order.
RECURSIVE KeysInOrder(_, _)
KeysInOrder(keys, t) ==
    IF t > MaxTrades THEN << >>
    ELSE IF t \in keys THEN <<t>> \o KeysInOrder(keys, t + 1)
    ELSE KeysInOrder(keys, t + 1)

\* update_positions(): list(self.open_trades.items())
UpdateBegin ==
    /\ pc["loop"] = "idle"
    /\ call' = [call EXCEPT !["loop"].snapshot = KeysInOrder(bots.open_trades, 1),
                            !["loop"].k = 1]
    /\ pc' = [pc EXCEPT !["loop"] = "next"]
    /\ UNCHANGED <<markets, bots, current_time, idx, ret, rng>>

\* One turn of update_positions' loop up to the threshold tests: the price is
\* looked up and stored on the trade, and _close_trade is entered at
\* stop-loss or take-profit.
UpdateNext ==
    /\ pc["loop"] = "next"
    /\ IF call["loop"].k > Len(call["loop"].snapshot)
       THEN /\ pc' = [pc EXCEPT !["loop"] = "idle"]
            /\ UNCHANGED <<markets, call>>
       ELSE LET t == call["loop"].snapshot[call["loop"].k]
                currentPrice == markets[t].quote
                diff == currentPrice - markets[t].entry_price
                thresholds == Thresholds(BaseStrategy, "long")
            IN /\ markets' = [markets EXCEPT ![t].current_price = currentPrice]
               /\ IF \/ diff * 1000 <= 0 - thresholds.stop_loss * markets[t].entry_price
                     \/ diff * 1000 >= thresholds.take_profit * markets[t].entry_price
                  THEN /\ pc' = [pc EXCEPT !["loop"] = "credit"]
                       /\ call' = [call EXCEPT !["loop"].trade = t,
                                               !["loop"].exit_price = currentPrice]
                  ELSE /\ pc' = pc
                       /\ call' = [call EXCEPT !["loop"].k = @ + 1]
    /\ UNCHANGED <<bots, current_time, idx, ret, rng>>

\* sell_position(trade_id) up to its call of _close_trade: False when the id
\* is not open.
SellPosition ==
    /\ pc["ui"] = "idle" /\ current_time < MaxSells
    /\ \E t \in TradeIds :
         IF t \notin bots.open_trades
         THEN UNCHANGED <<pc, call>>
         ELSE /\ pc' = [pc EXCEPT !["ui"] = "credit"]
              /\ call' = [call EXCEPT !["ui"].trade = t,
                                      !["ui"].exit_price = markets[t].current_price]
    /\ current_time' = current_time + 1
    /\ UNCHANGED <<markets, bots, idx, ret, rng>>

\* _close_trade(trade, exit_price, reason) up to the counters
CloseCredit(th) ==
    /\ pc[th] = "credit"
    /\ LET t == call[th].trade
           exitPrice == call[th].exit_price
           pnl == PositionValue(SellTrade.shares, exitPrice)
                  - PositionValue(SellTrade.shares, markets[t].entry_price)
       IN /\ markets' = [markets EXCEPT ![t].exit_price = exitPrice,
                                        ![t].status = "closed"]
          /\ bots' = [bots EXCEPT
                        !.cash_balance = @ + PositionValue(SellTrade.shares, exitPrice),
                        !.total_pnl = @ + pnl,
                        !.winning_trades = IF pnl >= 0 THEN @ + 1 ELSE @,
                        !.losing_trades = IF pnl >= 0 THEN @ ELSE @ + 1]
    /\ pc' = [pc EXCEPT ![th] = "move"]
    /\ UNCHANGED <<current_time, idx, call, ret, rng>>

\* _close_trade from "del self.open_trades[trade.id]" on. The KeyError of a
\* key that is gone is swallowed by update_positions' handler and leaves
\* sell_position as an exception.
CloseMove(th) ==
    /\ pc[th] = "move"
    /\ IF call[th].trade \in bots.open_trades
       THEN bots' = [bots EXCEPT !.open_trades = @ \ {call[th].trade},
                                 !.closed_trades = Append(@, call[th].trade)]
       ELSE UNCHANGED bots
    /\ pc' = [pc EXCEPT ![th] = IF th = "loop" THEN "next" ELSE "idle"]
    /\ call' = [call EXCEPT ![th].k = IF th = "loop" THEN @ + 1 ELSE @]
    /\ UNCHANGED <<markets, current_time, idx, ret, rng>>

SellNext ==
    \/ UpdateBegin \/ UpdateNext \/ SellPosition
    \/ \E th \in SellThreads : CloseCredit(th) \/ CloseMove(th)

SellSpec == SellInit /\ [][SellNext]_vars

\* What the closed trades brought in at their exit prices.
ClosedProceeds ==
    SumOver([i \in 1 .. Len(bots.closed_trades) |->
               PositionValue(SellTrade.shares, markets[bots.closed_trades[i]].exit_price)], 1)

\* C38: under every interleaving of update_positions with a manual
\* sell_position each trade is closed at most once: whenever no thread is
\* inside _close_trade, the cash holds the proceeds of each closed trade
\* once, the win/loss counters count each closed trade once, total_pnl is the
\* pnl of the closed trades, and no trade is twice in closed_trades.
C38_ClosedOnce ==
    (\A th \in SellThreads : pc[th] \notin {"credit", "move"}) =>
      /\ bots.cash_balance
           = InitialCapital
             - Cardinality(bots.open_trades) * PositionValue(SellTrade.shares, SellTrade.entry_price)
             - Len(bots.closed_trades) * PositionValue(SellTrade.shares, SellTrade.entry_price)
             + ClosedProceeds
      /\ bots.winning_trades + bots.losing_trades = Len(bots.closed_trades)
      /\ bots.total_pnl
           = ClosedProceeds
             - Len(bots.closed_trades) * PositionValue(SellTrade.shares, SellTrade.entry_price)
      /\ \A i, j \in 1 .. Len(bots.closed_trades) :
           i # j => bots.closed_trades[i] # bots.closed_trades[j]

\* =============================================================== PaperSpec
\* PaperTrader.buy and PaperTrader.sell on one portfolio: bots holds the
\* portfolio (positions[key] is NONE where the key is absent) and the trade
\* counter, call the order, ret the tuple the call returned and current_time
\* the number of orders placed.
MaxOrders == 3
PaperCapital == 100
PaperKeys == {"m|Yes", "m|No"}
ShareDraws == {0 - 100, 0, 100, 200}
PaperPriceDraws == {0 - 1000, 0, 4000, 6000, 10000}

NewPosition(shares, price) == [shares |-> shares, average_price |-> price]

PaperInit ==
    /\ markets = << >>
    /\ bots = [cash_balance |-> PaperCapital,
               positions |-> [key \in PaperKeys |-> NewPosition(0, NONE)],
               held |-> {},
               trade_history |-> << >>,
               realized_pnl |-> 0,
               total_trades |-> 0,
               winning_trades |-> 0,
               losing_trades |-> 0,
               trade_counter |-> 0]
    /\ current_time = 0
    /\ pc = "call" /\ idx = 1
    /\ call = [op |-> "none", key |-> "m|Yes", shares |-> 0, price |-> 0]
    /\ ret = <<TRUE, "", NONE>>
    /\ rng = NONE

\* PaperTrade(id=self._generate_trade_id(), action, ..., shares, price, value, pnl)
PaperTradeRecord(portfolio, action, key, shares, price, value, pnl) ==
    [id |-> portfolio.trade_counter + 1, action |-> action, key |-> key,
     shares |-> shares, price |-> price, value |-> value, pnl |-> pnl]

\* Mutant: the funds test of buy is left out.
PaperBuyNoFundsTest(portfolio, key, shares, price) ==
    LET cost == PositionValue(shares, price)
        pos == portfolio.positions[key]
        totalCost == PositionValue(pos.shares, pos.average_price) + cost
        trade == PaperTradeRecord(portfolio, "BUY", key, shares, price, cost, 0)
    IN IF shares <= 0
       THEN [portfolio |-> portfolio, result |-> <<FALSE, "Shares must be positive", NONE>>]
       ELSE IF price <= 0 \/ price >= PriceScale
       THEN [portfolio |-> portfolio,
             result |-> <<FALSE, "Price must be between 0 and 1", NONE>>]
       ELSE [portfolio |->
                 [portfolio EXCEPT
                    !.cash_balance = @ - cost,
                    !.positions[key] =
                        IF key \in portfolio.held
                        THEN NewPosition(pos.shares + shares,
                                         (totalCost * PriceScale)
                                           \div (pos.shares + shares))
                        ELSE NewPosition(shares, price),
                    !.held = @ \cup {key},
                    !.trade_history = Append(@, trade),
                    !.trade_counter = @ + 1],
             result |-> <<TRUE, "Bought", trade>>]

\* buy(market_id, outcome, question, shares, price)
PaperBuy(portfolio, key, shares, price) ==
    LET cost == PositionValue(shares, price)
        pos == portfolio.positions[key]
        totalCost == PositionValue(pos.shares, pos.average_price) + cost
        trade == PaperTradeRecord(portfolio, "BUY", key, shares, price, cost, 0)
    IN IF shares <= 0
       THEN [portfolio |-> portfolio, result |-> <<FALSE, "Shares must be positive", NONE>>]
       ELSE IF price <= 0 \/ price >= PriceScale
       THEN [portfolio |-> portfolio,
             result |-> <<FALSE, "Price must be between 0 and 1", NONE>>]
       ELSE IF cost > portfolio.cash_balance
       THEN [portfolio |-> portfolio, result |-> <<FALSE, "Insufficient funds", NONE>>]
       ELSE [portfolio |->
                 [portfolio EXCEPT
                    !.cash_balance = @ - cost,
                    !.positions[key] =
                        IF key \in portfolio.held
                        THEN NewPosition(pos.shares + shares,
                                         (totalCost * PriceScale)
                                           \div (pos.shares + shares))
                        ELSE NewPosition(shares, price),
                    !.held = @ \cup {key},
                    !.trade_history = Append(@, trade),
                    !.trade_counter = @ + 1],
             result |-> <<TRUE, "Bought", trade>>]

\* sell(market_id, outcome, shares, price)
PaperSell(portfolio, key, shares, price) ==
    LET pos == portfolio.positions[key]
        proceeds == PositionValue(shares, price)
        pnl == proceeds - PositionValue(shares, pos.average_price)
        trade == PaperTradeRecord(portfolio, "SELL", key, shares, price, proceeds, pnl)
    IN IF key \notin portfolio.held
       THEN [portfolio |-> portfolio, result |-> <<FALSE, "No position to sell", NONE>>]
       ELSE IF shares > pos.shares
       THEN [portfolio |-> portfolio, result |-> <<FALSE, "Cannot sell", NONE>>]
       ELSE IF shares <= 0
       THEN [portfolio |-> portfolio, result |-> <<FALSE, "Shares must be positive", NONE>>]
       ELSE [portfolio |->
                 [portfolio EXCEPT
                    !.cash_balance = @ + proceeds,
                    !.realized_pnl = @ + pnl,
                    !.total_trades = @ + 1,
                    !.winning_trades = IF pnl >= 0 THEN @ + 1 ELSE @,
                    !.losing_trades = IF pnl >= 0 THEN @ ELSE @ + 1,
                    !.positions[key] =
                        IF pos.shares - shares <= 0 THEN NewPosition(0, NONE)
                        ELSE NewPosition(pos.shares - shares, pos.average_price),
                    !.held = IF pos.shares - shares <= 0 THEN @ \ {key} ELSE @,
                    !.trade_history = Append(@, trade),
                    !.trade_counter = @ + 1],
             result |-> <<TRUE, "Sold", trade>>]

Buy ==
    /\ current_time < MaxOrders
    /\ \E key \in PaperKeys, shares \in ShareDraws, price \in PaperPriceDraws :
         LET done == PaperBuy(bots, key, shares, price) IN
         /\ call' = [op |-> "buy", key |-> key, shares |-> shares, price |-> price]
         /\ bots' = done.portfolio
         /\ ret' = done.result
    /\ current_time' = current_time + 1
    /\ UNCHANGED <<markets, pc, idx, rng>>

Sell ==
    /\ current_time < MaxOrders
    /\ \E key \in PaperKeys, shares \in ShareDraws, price \in PaperPriceDraws :
         LET done == PaperSell(bots, key, shares, price) IN
         /\ call' = [op |-> "sell", key |-> key, shares |-> shares, price |-> price]
         /\ bots' = done.portfolio
         /\ ret' = done.result
    /\ current_time' = current_time + 1
    /\ UNCHANGED <<markets, pc, idx, rng>>

PaperNext == Buy \/ Sell

PaperSpec == PaperInit /\ [][PaperNext]_vars

\* The order of this step is one the claim calls invalid, judged on the
\* portfolio before the step.
InvalidOrder ==
    \/ /\ call'.op = "buy"
       /\ \/ call'.shares <= 0
          \/ call'.price <= 0 \/ call'.price >= PriceScale
          \/ PositionValue(call'.shares, call'.price) > bots.cash_balance
    \/ /\ call'.op = "sell"
       /\ \/ call'.key \notin bots.held
          \/ call'.shares > bots.positions[call'.key].shares
          \/ call'.shares <= 0

RejectedOrderStep ==
    /\ InvalidOrder => ~ret'[1]
    /\ ~ret'[1] => /\ bots' = bots
                   /\ ret'[2] # "" /\ ret'[3] = NONE
    /\ (call'.op = "buy" /\ bots.cash_balance >= 0) => bots'.cash_balance >= 0

HoldingsPositive ==
    \A key \in PaperKeys :
        /\ bots.positions[key].shares >= 0
        /\ key \in bots.held <=> bots.positions[key].shares > 0

\* C39: PaperTrader turns an invalid order down without side effects: a buy
\* with shares <= 0, a price outside (0, 1) or a cost above the cash, and a
\* sell with no position, more shares than held or shares <= 0 return
\* (False, message, None) and leave cash, positions, trade history and
\* counters as they were; so no buy takes the cash below zero and no position
\* holds a negative number of shares.
C39_InvalidOrdersRejected ==
    /\ [][RejectedOrderStep]_vars
    /\ []HoldingsPositive

\* After a buy and a partial sell, a buy the remaining cash cannot pay has
\* just been turned down.
C39_Witness ==
    /\ call.op = "buy" /\ ~ret[1] /\ ret[2] = "Insufficient funds"
    /\ call.shares > 0 /\ call.price > 0 /\ call.price < PriceScale
    /\ Len(bots.trade_history) = 2
    /\ bots.trade_history[2].action = "SELL"
    /\ bots.held # {}

====
